---- MODULE Spec2Model ----
(***************************************************************************)
(* Model of AI_first/scripts/ai_first_control_server.py (the job queue of  *)
(* ControlServer, the request handlers that drive it, its lock, a worker   *)
(* whose subprocess cannot be launched, and the small JSON documents with  *)
(* their write path and their concurrent writers) and of                   *)
(* AI_first/scripts/reintegration_lib.py (the manifest diff and the        *)
(* reintegration run).                                                     *)
(*                                                                         *)
(* Threads.  ThreadingHTTPServer runs every request on a thread of its     *)
(* own: `handlers` is the bag of live request threads, each somewhere      *)
(* inside do_POST.  `workers` is the bag of live threads created by        *)
(* threading.Thread(target=self._queue_worker); nothing in the model       *)
(* limits it to one.  A step of the model is one statement, or one run of  *)
(* statements that touch only thread-local data, or one lock acquisition.  *)
(* Job objects are shared by reference between self.jobs and the worker,   *)
(* so a worker's write to job.status is a write to jobs[id].status.        *)
(*                                                                         *)
(* Optional values (Optional[str], Optional[int]) are sequences of length  *)
(* 0 (None) or 1.  A job id is uuid4().hex[:10], an opaque fresh token     *)
(* that only the creating thread knows until start_job inserts the job:    *)
(* the model names each job by the position at which it is inserted.       *)
(***************************************************************************)
EXTENDS Integers, Sequences, FiniteSets, Bags, TLC

\* ---- bounds of the model ------------------------------------------------
MaxJobs == 2
NumHandlers == 2
MaxPaths == 4
NumHashes == 2
MaxRequests == 3

\* ---- program constants ---------------------------------------------------
ErrorLogMax == 200

None == <<>>
Some(v) == <<v>>

\* _action_specs: action id -> ordered command list (each command named by
\* the script and output format it runs).
ActionSpecs ==
  [render_docs    |-> <<"render_docs">>,
   render_pm      |-> <<"render_pm">>,
   bugmgmt_export |-> <<"issues_json", "issues_html">>,
   refresh_all    |-> <<"render_docs", "render_pm", "issues_json", "issues_html">>]

\* Values of payload.get("action") the model submits: a registered action of
\* one command, a registered action of several, a string that is not a key
\* of the registry, and "None" for a payload without the key.
ActionInputs == {"render_pm", "bugmgmt_export", "bogus", "None"}

\* Exit codes a subprocess may return from proc.wait().
ExitCodes == {0, 1, 2}

\* _now(): the wall clock is not modelled; a timestamp is either unset or set.
Now == "T"

VARIABLES
  jobs,           \* self.jobs: job id -> Job
  job_order,      \* self.job_order
  queue,          \* self.queue
  queue_running,  \* self.queue_running
  error_log,      \* self.error_log
  lock,           \* self.lock: <<>> when free, else the holder's thread id
  handlers,       \* bag of live request threads [path, pc, action, job, ...]
  workers,        \* bag of live _queue_worker threads [pc, job, i, returncode]
  files,          \* log files on disk: job id -> lines
  submitted,      \* /api/run requests accepted in the run modelled (bounds it)
  runOrder,       \* history: job ids in the order they were set 'running'
  started,        \* history: job id -> commands passed to Popen, in order
  exits,          \* history: job id -> exit codes returned by wait(), in order
  sinceClear,     \* history: job ids appended to error_log since the last clear
  current,        \* _diff_manifests argument
  incoming,       \* _diff_manifests argument
  diff,           \* _diff_manifests result, None before the call
  source_path,    \* run_reintegration argument: what the path is on disk
  source_tree,    \* files of the AI_first directory found at source_path
  local_tree,     \* files of current_ai_first
  rpc,            \* position inside run_reintegration
  scratch_root,   \* TRUE when the scratch_root directory exists
  scratch_copy,   \* files of scratch_copy, None before the copy
  copy_mode,      \* return value of _copy_ai_first, None before the copy
  summary,        \* summary["counts"], None before it is built
  report,         \* counts in the files at report_path and markdown_path
  store,          \* what is at the path of each small document
  project_md,     \* what _write_simple_project_md last wrote, None before
  today,          \* the month of time.strftime("%Y-%m-%d"), index in Months
  requests,       \* document requests handled in the run modelled (bounds it)
  last,           \* history: the last document request and its response
  written,        \* history: document -> payload of the POST that last wrote
                  \* it, None when something else has touched the file since
  disk,           \* the document's directory entries and the files' contents
  io,             \* request threads inside _read_json or _write_json
  crashed         \* TRUE once the server process has been killed

serverVars == <<jobs, job_order, queue, queue_running, error_log, lock, handlers,
                workers, files, submitted, runOrder, started, exits,
                sinceClear>>
diffVars == <<current, incoming, diff>>
reintVars == <<source_path, source_tree, local_tree, rpc, scratch_root,
               scratch_copy, copy_mode, summary, report>>
docVars == <<store, project_md, today, requests, last, written>>
writeVars == <<disk, io, crashed>>
otherVars == <<diffVars, reintVars, docVars, writeVars>>
vars == <<jobs, job_order, queue, queue_running, error_log, lock, handlers,
          workers, files, submitted, runOrder, started, exits,
          sinceClear, current, incoming, diff, source_path, source_tree,
          local_tree, rpc, scratch_root, scratch_copy, copy_mode, summary,
          report, store, project_md, today, requests, last, written, disk, io,
          crashed>>

\* Holder of self.lock.  Threads are anonymous: the one holding the lock is
\* the one inside a with block (pc sj_cs, clr_cs, qw_cs, el_append, el_trim).
Free == <<>>
HandlerTid == <<"handler">>
WorkerTid == <<"worker">>

\* Job(id, action, status="queued", ...): the dataclass with its defaults.
\* log_path and log_url are functions of id and action and are not stored.
Job(id, action) ==
  [id |-> id, action |-> action, status |-> "queued",
   started_at |-> None, ended_at |-> None, returncode |-> None]

\* The locals of a request thread as do_POST begins.
Request(path) == [path |-> path, pc |-> "start", action |-> "None", job |-> None,
                  should_start |-> FALSE, resp |-> 0]

\* ControlServer.__init__
InitServer ==
  /\ jobs = <<>>
  /\ job_order = <<>>
  /\ queue = <<>>
  /\ queue_running = FALSE
  /\ error_log = <<>>
  /\ lock = Free
  /\ handlers = EmptyBag
  /\ workers = EmptyBag
  /\ files = <<>>
  /\ submitted = 0
  /\ runOrder = <<>>
  /\ started = <<>>
  /\ exits = <<>>
  /\ sinceClear = <<>>

NoDiff ==
  /\ current = <<>>
  /\ incoming = <<>>
  /\ diff = None

\* run_reintegration is not running.
NoReint ==
  /\ source_path = None
  /\ source_tree = <<>>
  /\ local_tree = <<>>
  /\ rpc = "idle"
  /\ scratch_root = FALSE
  /\ scratch_copy = None
  /\ copy_mode = None
  /\ summary = None
  /\ report = None

\* No document request has been made; the data directory is empty.
NoRequest == [op |-> "none"]
NoDocs ==
  /\ store = [d \in {"quick_issues", "simple_project", "ui_style"} |->
                [state |-> "missing"]]
  /\ project_md = None
  /\ today = 1
  /\ requests = 0
  /\ last = NoRequest
  /\ written = [d \in {"quick_issues", "simple_project", "ui_style"} |-> None]
  /\ disk = [doc |-> 0, tmp |-> 0, inodes |-> <<>>]
  /\ io = <<>>
  /\ crashed = FALSE

Init == InitServer /\ NoDiff /\ NoReint /\ NoDocs

\* ---- request handlers (Handler.do_POST, ControlServer.start_job) ---------

\* A request thread r moves on to state r2 / a new thread r2 is created /
\* thread r ends.
Move(r, r2) == handlers' = (handlers (-) SetToBag({r})) (+) SetToBag({r2})
Arrive(r2) ==
  /\ BagCardinality(handlers) < NumHandlers
  /\ handlers' = handlers (+) SetToBag({r2})
Leave(r) == handlers' = handlers (-) SetToBag({r})

\* Mutant of PostRun: the action is not looked up in server.actions.
PostRun_Unchecked(a) ==
  /\ submitted < MaxJobs
  /\ Arrive([Request("/api/run") EXCEPT !.pc = "sj_lock", !.action = a])
  /\ submitted' = submitted + 1
  /\ UNCHANGED <<jobs, job_order, queue, queue_running, error_log, lock, workers,
                 files, runOrder, started, exits, sinceClear>>
  /\ UNCHANGED otherVars

\* do_POST, path /api/run, up to the call of start_job; then start_job up to
\* the lock.  An action that is not a key of server.actions is answered 400.
\* Otherwise start_job builds the Job, status 'queued'.
PostRun(a) ==
  /\ IF a \notin DOMAIN ActionSpecs
       THEN /\ Arrive([Request("/api/run") EXCEPT !.pc = "rejected", !.action = a,
                                                  !.resp = 400])
            /\ UNCHANGED submitted
       ELSE /\ submitted < MaxJobs
            /\ Arrive([Request("/api/run") EXCEPT !.pc = "sj_lock", !.action = a])
            /\ submitted' = submitted + 1
  /\ UNCHANGED <<jobs, job_order, queue, queue_running, error_log, lock, workers,
                 files, runOrder, started, exits, sinceClear>>
  /\ UNCHANGED otherVars

\* Mutant of StartJobLock: the with block is entered without waiting for
\* the lock.
StartJobLock_NoWait(r) ==
  /\ r.pc = "sj_lock"
  /\ lock' = HandlerTid
  /\ Move(r, [r EXCEPT !.pc = "sj_cs"])
  /\ UNCHANGED <<jobs, job_order, queue, queue_running, error_log, workers, files,
                 submitted, runOrder, started, exits, sinceClear>>
  /\ UNCHANGED otherVars

\* start_job: `with self.lock:` entered.
StartJobLock(r) ==
  /\ r.pc = "sj_lock"
  /\ lock = Free
  /\ lock' = HandlerTid
  /\ Move(r, [r EXCEPT !.pc = "sj_cs"])
  /\ UNCHANGED <<jobs, job_order, queue, queue_running, error_log, workers, files,
                 submitted, runOrder, started, exits, sinceClear>>
  /\ UNCHANGED otherVars

\* Mutant of StartJobCritical: the id is put at the front of job_order.
StartJobCritical_Prepend(r) ==
  LET id == Len(job_order) + 1
      should_start == ~queue_running
  IN
  /\ r.pc = "sj_cs"
  /\ lock = HandlerTid
  /\ jobs' = (id :> Job(id, r.action)) @@ jobs
  /\ job_order' = <<id>> \o job_order
  /\ queue' = Append(queue, id)
  /\ queue_running' = IF should_start THEN TRUE ELSE queue_running
  /\ Move(r, [r EXCEPT !.pc = "sj_spawn", !.job = Some(id),
                        !.should_start = should_start])
  /\ lock' = Free
  /\ UNCHANGED <<error_log, workers, files, submitted, runOrder, started,
                 exits, sinceClear>>
  /\ UNCHANGED otherVars

\* Mutant of StartJobCritical: every submitter starts a worker.
StartJobCritical_AlwaysStart(r) ==
  LET id == Len(job_order) + 1
      should_start == TRUE
  IN
  /\ r.pc = "sj_cs"
  /\ lock = HandlerTid
  /\ jobs' = (id :> Job(id, r.action)) @@ jobs
  /\ job_order' = Append(job_order, id)
  /\ queue' = Append(queue, id)
  /\ queue_running' = IF should_start THEN TRUE ELSE queue_running
  /\ Move(r, [r EXCEPT !.pc = "sj_spawn", !.job = Some(id),
                        !.should_start = should_start])
  /\ lock' = Free
  /\ UNCHANGED <<error_log, workers, files, submitted, runOrder, started,
                 exits, sinceClear>>
  /\ UNCHANGED otherVars

\* start_job: the body of the with block, and the release of the lock.
StartJobCritical(r) ==
  LET id == Len(job_order) + 1
      should_start == ~queue_running
  IN
  /\ r.pc = "sj_cs"
  /\ lock = HandlerTid
  /\ jobs' = (id :> Job(id, r.action)) @@ jobs
  /\ job_order' = Append(job_order, id)
  /\ queue' = Append(queue, id)
  /\ queue_running' = IF should_start THEN TRUE ELSE queue_running
  /\ Move(r, [r EXCEPT !.pc = "sj_spawn", !.job = Some(id),
                        !.should_start = should_start])
  /\ lock' = Free
  /\ UNCHANGED <<error_log, workers, files, submitted, runOrder, started,
                 exits, sinceClear>>
  /\ UNCHANGED otherVars

NewWorker == [pc |-> "qw_lock", job |-> None, i |-> 0, returncode |-> 0]

\* start_job after the with block: the worker thread is created and started
\* if should_start; the job is returned, do_POST sends 200 and the request
\* thread ends.
StartJobSpawn(r) ==
  /\ r.pc = "sj_spawn"
  /\ workers' = IF r.should_start THEN workers (+) SetToBag({NewWorker}) ELSE workers
  /\ Leave(r)
  /\ UNCHANGED <<jobs, job_order, queue, queue_running, error_log, lock, files,
                 submitted, runOrder, started, exits, sinceClear>>
  /\ UNCHANGED otherVars

\* do_POST, path /api/errors/clear: request received, lock taken.
PostClearLock ==
  /\ lock = Free
  /\ lock' = HandlerTid
  /\ Arrive([Request("/api/errors/clear") EXCEPT !.pc = "clr_cs"])
  /\ UNCHANGED <<jobs, job_order, queue, queue_running, error_log, workers, files,
                 submitted, runOrder, started, exits, sinceClear>>
  /\ UNCHANGED otherVars

\* do_POST, path /api/errors/clear: error_log.clear(), release, send 200;
\* the request thread ends.
PostClearCritical(r) ==
  /\ r.pc = "clr_cs"
  /\ lock = HandlerTid
  /\ error_log' = <<>>
  /\ sinceClear' = <<>>
  /\ lock' = Free
  /\ Leave(r)
  /\ UNCHANGED <<jobs, job_order, queue, queue_running, workers, files,
                 submitted, runOrder, started, exits>>
  /\ UNCHANGED otherVars

\* The 400 response has been written; the request thread ends.
Finish(r) ==
  /\ r.pc = "rejected"
  /\ Leave(r)
  /\ UNCHANGED <<jobs, job_order, queue, queue_running, error_log, lock, workers,
                 files, submitted, runOrder, started, exits, sinceClear>>
  /\ UNCHANGED otherVars

\* ---- the worker (ControlServer._queue_worker, ControlServer._run_job) ----

\* A worker thread w moves on to state w2 / ends.
MoveWorker(w, w2) == workers' = (workers (-) SetToBag({w})) (+) SetToBag({w2})
LeaveWorker(w) == workers' = workers (-) SetToBag({w})
SetJob(id, r) == jobs' = [jobs EXCEPT ![id] = r]
JobOf(w) == w.job[1]

\* self._command_for(job.action)
CommandFor(action) == ActionSpecs[action]

\* _queue_worker: `with self.lock:` entered.
QueueWorkerLock(w) ==
  /\ w.pc = "qw_lock"
  /\ lock = Free
  /\ lock' = WorkerTid
  /\ MoveWorker(w, [w EXCEPT !.pc = "qw_cs"])
  /\ UNCHANGED <<jobs, job_order, queue, queue_running, error_log, handlers, files,
                 submitted, runOrder, started, exits, sinceClear>>
  /\ UNCHANGED otherVars

\* Mutant of QueueWorkerCritical: the head of the queue is read and left in
\* the queue.
QueueWorkerCritical_Peek(w) ==
  /\ w.pc = "qw_cs"
  /\ lock = WorkerTid
  /\ IF queue = <<>>
       THEN /\ queue_running' = FALSE
            /\ LeaveWorker(w)
       ELSE /\ MoveWorker(w, [w EXCEPT !.pc = "rj_status",
                                        !.job = Some(Head(queue))])
            /\ UNCHANGED queue_running
  /\ lock' = Free
  /\ UNCHANGED <<jobs, job_order, queue, error_log, handlers, files, submitted,
                 runOrder, started, exits, sinceClear>>
  /\ UNCHANGED otherVars

\* Mutant of QueueWorkerCritical: the flag is cleared as soon as the pop
\* leaves the queue empty, while the worker goes on to run the popped job.
QueueWorkerCritical_ClearEarly(w) ==
  /\ w.pc = "qw_cs"
  /\ lock = WorkerTid
  /\ IF queue = <<>>
       THEN /\ queue_running' = FALSE
            /\ LeaveWorker(w)
            /\ UNCHANGED queue
       ELSE LET job_id == Head(queue) IN
            /\ queue' = Tail(queue)
            /\ IF job_id \in DOMAIN jobs
                 THEN MoveWorker(w, [w EXCEPT !.pc = "rj_status",
                                                      !.job = Some(job_id)])
                 ELSE MoveWorker(w, [w EXCEPT !.pc = "qw_lock"])
            /\ queue_running' = (Tail(queue) # <<>>)
  /\ lock' = Free
  /\ UNCHANGED <<jobs, job_order, error_log, handlers, files, submitted,
                 runOrder, started, exits, sinceClear>>
  /\ UNCHANGED otherVars

\* Mutant of QueueWorkerCritical: queue.pop() instead of queue.pop(0).
QueueWorkerCritical_PopLast(w) ==
  /\ w.pc = "qw_cs"
  /\ lock = WorkerTid
  /\ IF queue = <<>>
       THEN /\ queue_running' = FALSE
            /\ LeaveWorker(w)
            /\ UNCHANGED queue
       ELSE LET job_id == queue[Len(queue)] IN
            /\ queue' = SubSeq(queue, 1, Len(queue) - 1)
            /\ IF job_id \in DOMAIN jobs
                 THEN MoveWorker(w, [w EXCEPT !.pc = "rj_status",
                                                      !.job = Some(job_id)])
                 ELSE MoveWorker(w, [w EXCEPT !.pc = "qw_lock"])
            /\ UNCHANGED queue_running
  /\ lock' = Free
  /\ UNCHANGED <<jobs, job_order, error_log, handlers, files, submitted,
                 runOrder, started, exits, sinceClear>>
  /\ UNCHANGED otherVars

\* _queue_worker: the body of the with block and the release of the lock.
\* Empty queue: the flag is cleared and the thread returns.  Otherwise the
\* head of the queue is popped and looked up; `if job is None: continue`.
QueueWorkerCritical(w) ==
  /\ w.pc = "qw_cs"
  /\ lock = WorkerTid
  /\ IF queue = <<>>
       THEN /\ queue_running' = FALSE
            /\ LeaveWorker(w)
            /\ UNCHANGED queue
       ELSE LET job_id == Head(queue) IN
            /\ queue' = Tail(queue)
            /\ IF job_id \in DOMAIN jobs
                 THEN MoveWorker(w, [w EXCEPT !.pc = "rj_status",
                                                      !.job = Some(job_id)])
                 ELSE MoveWorker(w, [w EXCEPT !.pc = "qw_lock"])
            /\ UNCHANGED queue_running
  /\ lock' = Free
  /\ UNCHANGED <<jobs, job_order, error_log, handlers, files, submitted,
                 runOrder, started, exits, sinceClear>>
  /\ UNCHANGED otherVars

\* Mutant of RunJobStatus: the job is never marked 'running'.
RunJobStatus_Skipped(w) ==
  /\ w.pc = "rj_status"
  /\ runOrder' = Append(runOrder, JobOf(w))
  /\ MoveWorker(w, [w EXCEPT !.pc = "rj_started"])
  /\ UNCHANGED <<jobs, job_order, queue, queue_running, error_log, lock, handlers,
                 files, submitted, started, exits, sinceClear>>
  /\ UNCHANGED otherVars

\* _run_job: job.status = "running"
RunJobStatus(w) ==
  /\ w.pc = "rj_status"
  /\ SetJob(JobOf(w), [jobs[JobOf(w)] EXCEPT !.status = "running"])
  /\ runOrder' = Append(runOrder, JobOf(w))
  /\ MoveWorker(w, [w EXCEPT !.pc = "rj_started"])
  /\ UNCHANGED <<job_order, queue, queue_running, error_log, lock, handlers, files,
                 submitted, started, exits, sinceClear>>
  /\ UNCHANGED otherVars

\* _run_job: job.started_at = _now()
RunJobStarted(w) ==
  /\ w.pc = "rj_started"
  /\ SetJob(JobOf(w), [jobs[JobOf(w)] EXCEPT !.started_at = Some(Now)])
  /\ MoveWorker(w, [w EXCEPT !.pc = "rj_open"])
  /\ UNCHANGED <<job_order, queue, queue_running, error_log, lock, handlers, files,
                 submitted, runOrder, started, exits, sinceClear>>
  /\ UNCHANGED otherVars

\* _run_job: commands looked up, returncode = 0, the log file opened with
\* mode "w" (created empty), the for loop entered.
RunJobOpen(w) ==
  LET commands == CommandFor(jobs[JobOf(w)].action) IN
  /\ w.pc = "rj_open"
  /\ files' = (JobOf(w) :> <<>>) @@ files
  /\ started' = (JobOf(w) :> <<>>) @@ started
  /\ exits' = (JobOf(w) :> <<>>) @@ exits
  /\ MoveWorker(w, [w EXCEPT
                     !.pc = IF Len(commands) = 0 THEN "rj_rc" ELSE "rj_write",
                     !.i = 1, !.returncode = 0])
  /\ UNCHANGED <<jobs, job_order, queue, queue_running, error_log, lock, handlers,
                 submitted, runOrder, sinceClear>>
  /\ UNCHANGED otherVars

\* Mutant of RunJobWrite: the RUN line is written for the first command only.
RunJobWrite_FirstOnly(w) ==
  LET cmd == CommandFor(jobs[JobOf(w)].action)[w.i] IN
  /\ w.pc = "rj_write"
  /\ files' = IF w.i = 1 THEN [files EXCEPT ![JobOf(w)] = Append(@, <<"RUN", cmd>>)]
                         ELSE files
  /\ MoveWorker(w, [w EXCEPT !.pc = "rj_popen"])
  /\ UNCHANGED <<jobs, job_order, queue, queue_running, error_log, lock, handlers,
                 submitted, runOrder, started, exits, sinceClear>>
  /\ UNCHANGED otherVars

\* _run_job: fh.write("[now] RUN: cmd"); fh.flush()
RunJobWrite(w) ==
  LET cmd == CommandFor(jobs[JobOf(w)].action)[w.i] IN
  /\ w.pc = "rj_write"
  /\ files' = [files EXCEPT ![JobOf(w)] = Append(@, <<"RUN", cmd>>)]
  /\ MoveWorker(w, [w EXCEPT !.pc = "rj_popen"])
  /\ UNCHANGED <<jobs, job_order, queue, queue_running, error_log, lock, handlers,
                 submitted, runOrder, started, exits, sinceClear>>
  /\ UNCHANGED otherVars

\* _run_job: subprocess.Popen(cmd, stdout=fh, stderr=STDOUT)
RunJobPopen(w) ==
  LET cmd == CommandFor(jobs[JobOf(w)].action)[w.i] IN
  /\ w.pc = "rj_popen"
  /\ started' = [started EXCEPT ![JobOf(w)] = Append(@, cmd)]
  /\ MoveWorker(w, [w EXCEPT !.pc = "rj_wait"])
  /\ UNCHANGED <<jobs, job_order, queue, queue_running, error_log, lock, handlers,
                 files, submitted, runOrder, exits, sinceClear>>
  /\ UNCHANGED otherVars

\* Mutant of RunJobWait: no break on a non-zero exit code.
RunJobWait_NoBreak(w, rc) ==
  LET commands == CommandFor(jobs[JobOf(w)].action) IN
  /\ w.pc = "rj_wait"
  /\ exits' = [exits EXCEPT ![JobOf(w)] = Append(@, rc)]
  /\ MoveWorker(w, [w EXCEPT
                     !.returncode = rc,
                     !.i = @ + 1,
                     !.pc = IF w.i = Len(commands) THEN "rj_rc" ELSE "rj_write"])
  /\ UNCHANGED <<jobs, job_order, queue, queue_running, error_log, lock, handlers,
                 files, submitted, runOrder, started, sinceClear>>
  /\ UNCHANGED otherVars

\* _run_job: returncode = proc.wait(); `if returncode != 0: break`, else the
\* next iteration of the for loop or its end.  (What the subprocess itself
\* prints into the log is not modelled: `files` holds the lines _run_job
\* writes.)
RunJobWait(w, rc) ==
  LET commands == CommandFor(jobs[JobOf(w)].action) IN
  /\ w.pc = "rj_wait"
  /\ exits' = [exits EXCEPT ![JobOf(w)] = Append(@, rc)]
  /\ MoveWorker(w, [w EXCEPT
                     !.returncode = rc,
                     !.i = IF rc # 0 THEN @ ELSE @ + 1,
                     !.pc = IF rc # 0 \/ w.i = Len(commands)
                              THEN "rj_rc" ELSE "rj_write"])
  /\ UNCHANGED <<jobs, job_order, queue, queue_running, error_log, lock, handlers,
                 files, submitted, runOrder, started, sinceClear>>
  /\ UNCHANGED otherVars

\* _run_job: job.returncode = returncode (the log file is closed)
RunJobReturncode(w) ==
  /\ w.pc = "rj_rc"
  /\ SetJob(JobOf(w), [jobs[JobOf(w)] EXCEPT !.returncode = Some(w.returncode)])
  /\ MoveWorker(w, [w EXCEPT !.pc = "rj_ended"])
  /\ UNCHANGED <<job_order, queue, queue_running, error_log, lock, handlers, files,
                 submitted, runOrder, started, exits, sinceClear>>
  /\ UNCHANGED otherVars

\* _run_job: job.ended_at = _now()
RunJobEnded(w) ==
  /\ w.pc = "rj_ended"
  /\ SetJob(JobOf(w), [jobs[JobOf(w)] EXCEPT !.ended_at = Some(Now)])
  /\ MoveWorker(w, [w EXCEPT !.pc = "rj_final"])
  /\ UNCHANGED <<job_order, queue, queue_running, error_log, lock, handlers, files,
                 submitted, runOrder, started, exits, sinceClear>>
  /\ UNCHANGED otherVars

\* Mutant of RunJobFinal: the error branch is taken whatever the status.
RunJobFinal_LogAll(w) ==
  LET status == IF w.returncode = 0 THEN "done" ELSE "error" IN
  /\ w.pc = "rj_final"
  /\ SetJob(JobOf(w), [jobs[JobOf(w)] EXCEPT !.status = status])
  /\ MoveWorker(w, [w EXCEPT !.pc = "el_lock"])
  /\ UNCHANGED <<job_order, queue, queue_running, error_log, lock, handlers, files,
                 submitted, runOrder, started, exits, sinceClear>>
  /\ UNCHANGED otherVars

\* _run_job: job.status = "done" if returncode == 0 else "error"; a job that
\* is not in error returns to the drain loop.
RunJobFinal(w) ==
  LET status == IF w.returncode = 0 THEN "done" ELSE "error" IN
  /\ w.pc = "rj_final"
  /\ SetJob(JobOf(w), [jobs[JobOf(w)] EXCEPT !.status = status])
  /\ MoveWorker(w, IF status = "error"
                    THEN [w EXCEPT !.pc = "el_lock"]
                    ELSE NewWorker)
  /\ UNCHANGED <<job_order, queue, queue_running, error_log, lock, handlers, files,
                 submitted, runOrder, started, exits, sinceClear>>
  /\ UNCHANGED otherVars

\* _run_job, error branch: `with self.lock:` entered.
ErrorLogLock(w) ==
  /\ w.pc = "el_lock"
  /\ lock = Free
  /\ lock' = WorkerTid
  /\ MoveWorker(w, [w EXCEPT !.pc = "el_append"])
  /\ UNCHANGED <<jobs, job_order, queue, queue_running, error_log, handlers, files,
                 submitted, runOrder, started, exits, sinceClear>>
  /\ UNCHANGED otherVars

\* The dict appended to error_log (log_url is a function of id and action).
ErrorEntry(job) ==
  [id |-> job.id, action |-> job.action, status |-> job.status,
   returncode |-> job.returncode, started_at |-> job.started_at,
   ended_at |-> job.ended_at]

\* _run_job, error branch: self.error_log.append({...})
ErrorLogAppend(w) ==
  /\ w.pc = "el_append"
  /\ lock = WorkerTid
  /\ error_log' = Append(error_log, ErrorEntry(jobs[JobOf(w)]))
  /\ sinceClear' = Append(sinceClear, JobOf(w))
  /\ MoveWorker(w, [w EXCEPT !.pc = "el_trim"])
  /\ UNCHANGED <<jobs, job_order, queue, queue_running, lock, handlers, files,
                 submitted, runOrder, started, exits>>
  /\ UNCHANGED otherVars

\* self.error_log[-200:]
LastN(s, n) == IF Len(s) > n THEN SubSeq(s, Len(s) - n + 1, Len(s)) ELSE s

\* Mutant of ErrorLogTrim: self.error_log[:200], the oldest entries kept.
ErrorLogTrim_KeepFirst(w) ==
  /\ w.pc = "el_trim"
  /\ lock = WorkerTid
  /\ error_log' = IF Len(error_log) > ErrorLogMax THEN SubSeq(error_log, 1, ErrorLogMax)
                                                  ELSE error_log
  /\ lock' = Free
  /\ MoveWorker(w, NewWorker)
  /\ UNCHANGED <<jobs, job_order, queue, queue_running, handlers, files,
                 submitted, runOrder, started, exits, sinceClear>>
  /\ UNCHANGED otherVars

\* _run_job, error branch: the trim to the last 200 entries, the release of
\* the lock, and the return to the drain loop.
ErrorLogTrim(w) ==
  /\ w.pc = "el_trim"
  /\ lock = WorkerTid
  /\ error_log' = IF Len(error_log) > ErrorLogMax THEN LastN(error_log, ErrorLogMax)
                                                  ELSE error_log
  /\ lock' = Free
  /\ MoveWorker(w, NewWorker)
  /\ UNCHANGED <<jobs, job_order, queue, queue_running, handlers, files,
                 submitted, runOrder, started, exits, sinceClear>>
  /\ UNCHANGED otherVars

Next ==
  \/ \E a \in ActionInputs : PostRun(a)
  \/ \E r \in BagToSet(handlers) : StartJobLock(r)
  \/ \E r \in BagToSet(handlers) : StartJobCritical(r)
  \/ \E r \in BagToSet(handlers) : StartJobSpawn(r)
  \/ PostClearLock
  \/ \E r \in BagToSet(handlers) : PostClearCritical(r)
  \/ \E r \in BagToSet(handlers) : Finish(r)
  \/ \E w \in BagToSet(workers) : QueueWorkerLock(w)
  \/ \E w \in BagToSet(workers) : QueueWorkerCritical(w)
  \/ \E w \in BagToSet(workers) : RunJobStatus(w)
  \/ \E w \in BagToSet(workers) : RunJobStarted(w)
  \/ \E w \in BagToSet(workers) : RunJobOpen(w)
  \/ \E w \in BagToSet(workers) : RunJobWrite(w)
  \/ \E w \in BagToSet(workers) : RunJobPopen(w)
  \/ \E w \in BagToSet(workers), rc \in ExitCodes : RunJobWait(w, rc)
  \/ \E w \in BagToSet(workers) : RunJobReturncode(w)
  \/ \E w \in BagToSet(workers) : RunJobEnded(w)
  \/ \E w \in BagToSet(workers) : RunJobFinal(w)
  \/ \E w \in BagToSet(workers) : ErrorLogLock(w)
  \/ \E w \in BagToSet(workers) : ErrorLogAppend(w)
  \/ \E w \in BagToSet(workers) : ErrorLogTrim(w)

Spec == Init /\ [][Next]_vars

\* ---- a server that has already logged many failures -----------------------

\* The job table after `n` jobs of one command each have run one after the
\* other, none of them concurrently with a request, and each has failed
\* with exit code 1.
FailedJob(id) ==
  [Job(id, "render_pm") EXCEPT !.status = "error", !.started_at = Some(Now),
                               !.ended_at = Some(Now), !.returncode = Some(1)]

\* The server one failure short of a full error log: ErrorLogMax - 1 jobs
\* have failed, the worker has drained the queue and returned, and no
\* request is in progress.
InitRoll ==
  LET n == ErrorLogMax - 1 IN
  /\ jobs = [id \in 1..n |-> FailedJob(id)]
  /\ job_order = [id \in 1..n |-> id]
  /\ queue = <<>>
  /\ queue_running = FALSE
  /\ error_log = [id \in 1..n |-> ErrorEntry(FailedJob(id))]
  /\ lock = Free
  /\ handlers = EmptyBag
  /\ workers = EmptyBag
  /\ files = [id \in 1..n |-> <<<<"RUN", "render_pm">>>>]
  /\ submitted = 0
  /\ runOrder = [id \in 1..n |-> id]
  /\ started = [id \in 1..n |-> <<"render_pm">>]
  /\ exits = [id \in 1..n |-> <<1>>]
  /\ sinceClear = [id \in 1..n |-> id]
  /\ NoDiff
  /\ NoReint
  /\ NoDocs

\* The steps of Next, with the requests narrowed to what the error log
\* depends on: jobs of one command, which succeed or fail, rejected
\* submissions, and clears.
NextRoll ==
  \/ \E a \in {"render_pm", "bogus"} : PostRun(a)
  \/ \E r \in BagToSet(handlers) : StartJobLock(r)
  \/ \E r \in BagToSet(handlers) : StartJobCritical(r)
  \/ \E r \in BagToSet(handlers) : StartJobSpawn(r)
  \/ PostClearLock
  \/ \E r \in BagToSet(handlers) : PostClearCritical(r)
  \/ \E r \in BagToSet(handlers) : Finish(r)
  \/ \E w \in BagToSet(workers) : QueueWorkerLock(w)
  \/ \E w \in BagToSet(workers) : QueueWorkerCritical(w)
  \/ \E w \in BagToSet(workers) : RunJobStatus(w)
  \/ \E w \in BagToSet(workers) : RunJobStarted(w)
  \/ \E w \in BagToSet(workers) : RunJobOpen(w)
  \/ \E w \in BagToSet(workers) : RunJobWrite(w)
  \/ \E w \in BagToSet(workers) : RunJobPopen(w)
  \/ \E w \in BagToSet(workers), rc \in ExitCodes : RunJobWait(w, rc)
  \/ \E w \in BagToSet(workers) : RunJobReturncode(w)
  \/ \E w \in BagToSet(workers) : RunJobEnded(w)
  \/ \E w \in BagToSet(workers) : RunJobFinal(w)
  \/ \E w \in BagToSet(workers) : ErrorLogLock(w)
  \/ \E w \in BagToSet(workers) : ErrorLogAppend(w)
  \/ \E w \in BagToSet(workers) : ErrorLogTrim(w)

SpecRoll == InitRoll /\ [][NextRoll]_vars

\* ---- the manifest diff (reintegration_lib._diff_manifests) ----------------

\* A relative path is a number: its rank in the order sorted() puts path
\* strings in.  A content hash is a number.
Paths == 1..MaxPaths
Hashes == 1..NumHashes
Manifests == UNION {[S -> Hashes] : S \in SUBSET Paths}

Min(S) == CHOOSE x \in S : \A y \in S : x <= y

\* sorted(S)
RECURSIVE Sorted(_)
Sorted(S) == IF S = {} THEN <<>> ELSE <<Min(S)>> \o Sorted(S \ {Min(S)})

\* Mutant of DiffManifests: `same` is not filtered by hash equality.
DiffManifests_SameUnfiltered(cur, inc) ==
  LET current_keys == DOMAIN cur
      incoming_keys == DOMAIN inc
      added == Sorted(incoming_keys \ current_keys)
      removed == Sorted(current_keys \ incoming_keys)
      common == current_keys \cap incoming_keys
      changed == Sorted({k \in common : cur[k] # inc[k]})
      same == Sorted(common)
  IN <<added, removed, changed, same>>

\* Mutant of DiffManifests: the two set differences are exchanged.
DiffManifests_Swapped(cur, inc) ==
  LET current_keys == DOMAIN cur
      incoming_keys == DOMAIN inc
      added == Sorted(current_keys \ incoming_keys)
      removed == Sorted(incoming_keys \ current_keys)
      common == current_keys \cap incoming_keys
      changed == Sorted({k \in common : cur[k] # inc[k]})
      same == Sorted({k \in common : cur[k] = inc[k]})
  IN <<added, removed, changed, same>>

\* _diff_manifests(current, incoming) -> (added, removed, changed, same)
DiffManifests(cur, inc) ==
  LET current_keys == DOMAIN cur
      incoming_keys == DOMAIN inc
      added == Sorted(incoming_keys \ current_keys)
      removed == Sorted(current_keys \ incoming_keys)
      common == current_keys \cap incoming_keys
      changed == Sorted({k \in common : cur[k] # inc[k]})
      same == Sorted({k \in common : cur[k] = inc[k]})
  IN <<added, removed, changed, same>>

\* Any two manifests, before the call.
InitDiff ==
  /\ InitServer
  /\ NoReint
  /\ NoDocs
  /\ current \in Manifests
  /\ incoming \in Manifests
  /\ diff = None

\* added, removed, changed, same = _diff_manifests(current, incoming)
DiffCall ==
  /\ diff = None
  /\ diff' = Some(DiffManifests(current, incoming))
  /\ UNCHANGED <<current, incoming>>
  /\ UNCHANGED <<serverVars, reintVars, docVars, writeVars>>

NextDiff == DiffCall

SpecDiff == InitDiff /\ [][NextDiff]_vars

\* ---- the tool (reintegration_lib.run_reintegration) -----------------------

IGNORED_DIRS == {".git", ".venv", "node_modules", "__pycache__"}
IGNORED_FILES == {".DS_Store"}

\* The files a tree may hold, as the parts of their paths relative to the
\* tree's root, in the order sorted() puts their posix strings in.  A file is
\* named in a manifest by its rank in this order.
TreeFiles ==
  << <<".DS_Store">>,
     <<"__pycache__", "run.pyc">>,
     <<"a.md">>,
     <<"b.md">>,
     <<"docs", "c.md">> >>
TreePaths == DOMAIN TreeFiles

\* Path.name and the directories above the file (Path.parts without the name).
Name(p) == TreeFiles[p][Len(TreeFiles[p])]
DirParts(p) == {TreeFiles[p][k] : k \in 1..(Len(TreeFiles[p]) - 1)}
Parts(p) == {TreeFiles[p][k] : k \in 1..Len(TreeFiles[p])}

\* The contents (content hashes) a file may have: a.md has two versions.
Versions(p) == IF Name(p) = "a.md" THEN {1, 2} ELSE {1}

\* A tree: the files in it, each with its content.
Trees ==
  UNION {{t \in [S -> {1, 2}] : \A p \in S : t[p] \in Versions(p)} :
         S \in SUBSET TreePaths}
Restrict(t, S) == [p \in S \cap DOMAIN t |-> t[p]]

\* _iter_files(root): rglob("*") yields every entry below root, at any depth.
\* A directory entry named in IGNORED_DIRS is passed over, and so is every
\* other directory entry (nothing is yielded for a directory); the entries
\* below it are still yielded by rglob.  A file is yielded unless its own
\* name is in IGNORED_FILES.
IterFiles(tree) == {p \in DOMAIN tree : Name(p) \notin IGNORED_FILES}

\* _build_manifest(root): relative path -> _hash_file(path)
BuildManifest(tree) == [p \in IterFiles(tree) |-> tree[p]]

\* What source_path is on disk: a directory or not (a file, or nothing),
\* its name, and what source_path / "AI_first" is.
SourcePaths ==
  {sp \in [is_dir : BOOLEAN, name : {"AI_first", "repo"},
           child : {"dir", "file", "none"}] :
     ~sp.is_dir => sp.child = "none"}

\* _find_ai_first_dir(source_path): which directory is returned, or "raise"
\* for FileNotFoundError.
FindAiFirstDir(sp) ==
  IF sp.is_dir /\ sp.name = "AI_first" THEN "self"
  ELSE IF sp.child = "dir" THEN "child"
  ELSE "raise"

\* _git_tracked_files(root, rel_dir): None without a .git or when git fails,
\* else the paths git lists, which need not exist in the working tree.
GitTrackedFiles == {None} \cup {Some(S) : S \in SUBSET TreePaths}

\* _copy_ai_first(src, dest, tracked=tracked): the files that reach dest.
CopyAiFirst(tree, tracked) ==
  IF tracked # None
    THEN Restrict(tree, {p \in tracked[1] :
                           /\ Name(p) \notin IGNORED_FILES
                           /\ Parts(p) \cap IGNORED_DIRS = {}})
    ELSE Restrict(tree, {p \in TreePaths :
                           Parts(p) \cap (IGNORED_DIRS \cup IGNORED_FILES) = {}})

\* summary["counts"]
Counts(d, cur, inc) ==
  [added |-> Len(d[1]), removed |-> Len(d[2]), changed |-> Len(d[3]),
   same |-> Len(d[4]), total_current |-> Cardinality(DOMAIN cur),
   total_incoming |-> Cardinality(DOMAIN inc)]

\* A call of run_reintegration with any source path and any two trees.
InitReint ==
  /\ InitServer
  /\ NoDiff
  /\ NoDocs
  /\ source_path \in SourcePaths
  /\ source_tree \in IF FindAiFirstDir(source_path) = "raise" THEN {<<>>} ELSE Trees
  /\ local_tree \in Trees
  /\ rpc = "find"
  /\ scratch_root = FALSE
  /\ scratch_copy = None
  /\ copy_mode = None
  /\ summary = None
  /\ report = None

\* Mutant of RunFind: no FileNotFoundError, the run goes on.
RunFind_NoRaise ==
  /\ rpc = "find"
  /\ rpc' = "mkdir"
  /\ UNCHANGED <<source_path, source_tree, local_tree, scratch_root,
                 scratch_copy, copy_mode, summary, report>>
  /\ UNCHANGED <<serverVars, diffVars, docVars, writeVars>>

\* source_root, source_ai_first = _find_ai_first_dir(...)
RunFind ==
  /\ rpc = "find"
  /\ rpc' = IF FindAiFirstDir(source_path) = "raise" THEN "raised" ELSE "mkdir"
  /\ UNCHANGED <<source_path, source_tree, local_tree, scratch_root,
                 scratch_copy, copy_mode, summary, report>>
  /\ UNCHANGED <<serverVars, diffVars, docVars, writeVars>>

\* scratch_root.mkdir(parents=True, exist_ok=True)
RunMkdir ==
  /\ rpc = "mkdir"
  /\ scratch_root' = TRUE
  /\ rpc' = "copy"
  /\ UNCHANGED <<source_path, source_tree, local_tree, scratch_copy, copy_mode,
                 summary, report>>
  /\ UNCHANGED <<serverVars, diffVars, docVars, writeVars>>

\* tracked = _git_tracked_files(...); copy_mode = _copy_ai_first(...)
RunCopy(tracked) ==
  /\ rpc = "copy"
  /\ scratch_copy' = Some(CopyAiFirst(source_tree, tracked))
  /\ copy_mode' = Some(IF tracked # None THEN "tracked" ELSE "full")
  /\ rpc' = "manifest"
  /\ UNCHANGED <<source_path, source_tree, local_tree, scratch_root, summary,
                 report>>
  /\ UNCHANGED <<serverVars, diffVars, docVars, writeVars>>

\* The two manifests, their diff and the summary's counts.
RunDiff ==
  /\ rpc = "manifest"
  /\ incoming' = BuildManifest(scratch_copy[1])
  /\ current' = BuildManifest(local_tree)
  /\ diff' = Some(DiffManifests(current', incoming'))
  /\ summary' = Some(Counts(diff'[1], current', incoming'))
  /\ rpc' = "report"
  /\ UNCHANGED <<source_path, source_tree, local_tree, scratch_root,
                 scratch_copy, copy_mode, report>>
  /\ UNCHANGED <<serverVars, docVars, writeVars>>

\* report_path.write_text(...); markdown_path.write_text(...)
RunReport ==
  /\ rpc = "report"
  /\ report' = summary
  /\ rpc' = "done"
  /\ UNCHANGED <<source_path, source_tree, local_tree, scratch_root,
                 scratch_copy, copy_mode, summary>>
  /\ UNCHANGED <<serverVars, diffVars, docVars, writeVars>>

NextReint ==
  \/ RunFind
  \/ RunMkdir
  \/ \E tracked \in GitTrackedFiles : RunCopy(tracked)
  \/ RunDiff
  \/ RunReport

SpecReint == InitReint /\ [][NextReint]_vars

\* ---- the small-document store (_read_json, _write_json, do_GET, do_POST) ---

\* JSON values.  A JSON string is the TLA+ string; a value that is not a
\* string is a token that starts with #: null, a number, a list.
JNull == "#null"
JNum == "#5"
NonStrings == {"#null", "#5", "#[]", "#[a,b]"}
IsStr(v) == v \notin NonStrings
IsList(v) == v \in {"#[]", "#[a,b]"}

\* payload.get(f)
Get(payload, f) == IF f \in DOMAIN payload THEN payload[f] ELSE JNull

\* `v or d`: None, "" and [] are falsy.
Or(v, d) == IF v \in {"#null", "", "#[]"} THEN d ELSE v

\* str.strip() and str.lower() on the strings of the model.
Stripped ==
  [s \in {" Fix ", " Closed ", " HIGH ", " note ", " me ", " Close ", " "} |->
     CASE s = " Fix " -> "Fix"
       [] s = " Closed " -> "Closed"
       [] s = " HIGH " -> "HIGH"
       [] s = " note " -> "note"
       [] s = " me " -> "me"
       [] s = " Close " -> "Close"
       [] s = " " -> ""]
Strip(s) == IF s \in DOMAIN Stripped THEN Stripped[s] ELSE s
Lowered ==
  [s \in {"Closed", "HIGH", "Close"} |->
     CASE s = "Closed" -> "closed"
       [] s = "HIGH" -> "high"
       [] s = "Close" -> "close"]
Lower(s) == IF s \in DOMAIN Lowered THEN Lowered[s] ELSE s

\* [t.strip() for t in tags.split(",") if t.strip()] for a string, else the
\* value itself.  The tag strings of the model are "a, b" and blank ones.
SplitTags(v) ==
  IF ~IsStr(v) THEN v
  ELSE IF v = "a, b" THEN "#[a,b]"
  ELSE "#[]"

\* Mutant of NormalizeStatus: no fallback to "open".
NormalizeStatus_NoDefault(value) == Lower(Strip(Or(value, "")))

\* _normalize_status(value), for a value on which strip() does not raise.
NormalizeStatus(value) ==
  LET v == Lower(Strip(Or(value, "")))
  IN IF v \in {"open", "in_progress", "closed"} THEN v ELSE "open"

\* _normalize_priority(value)
NormalizePriority(value) ==
  LET v == Lower(Strip(Or(value, "")))
  IN IF v \in {"high", "medium", "low"} THEN v ELSE "medium"

\* time.strftime("%Y-%m-%d")[:7] on the days requests arrive.
Months == <<"2026-11", "2026-12">>

\* f"{next_num:03d}": the decimal digits, zero-padded to at least three.
RECURSIVE Digits(_)
Digits(n) == IF n < 10 THEN <<n>> ELSE Append(Digits(n \div 10), n % 10)
Pad3(n) ==
  LET ds == Digits(n)
  IN IF Len(ds) >= 3 THEN ds ELSE [k \in 1..(3 - Len(ds)) |-> 0] \o ds

\* int(tail)
RECURSIVE ToInt(_)
ToInt(ds) ==
  IF ds = <<>> THEN 0
  ELSE 10 * ToInt(SubSeq(ds, 1, Len(ds) - 1)) + ds[Len(ds)]

\* tail.isdigit()
IsDigit(ds) == ds # <<>> /\ \A k \in 1..Len(ds) : ds[k] \in 0..9

\* An issue id "QI-YYYY-MM-NNN": the month and the characters after the
\* last dash.
IssueId(ym, tail) == [ym |-> ym, tail |-> tail]

\* Mutant of NextIssueId: counts the issues instead of taking the maximum.
NextIssueId_Count(issues, now_date) ==
  IssueId(now_date, Pad3(Len(issues) + 1))

\* _next_issue_id(issues, now_date)
NextIssueId(issues, now_date) ==
  LET numbers == {ToInt(issues[k].id.tail) :
                    k \in {j \in 1..Len(issues) :
                             /\ issues[j].id.ym = now_date
                             /\ IsDigit(issues[j].id.tail)}}
      next_num == (IF numbers # {} THEN CHOOSE n \in numbers :
                                          \A m \in numbers : m <= n
                   ELSE 0) + 1
  IN IssueId(now_date, Pad3(next_num))

\* json.dumps(payload, indent=2, sort_keys=True): the text of an object is
\* the sequence of its <<key, value>> members in the order of the keys.
\* Keys lists the keys of the model's objects in sorted order.
Keys ==
  <<"active_template_id", "created_at", "entries", "id", "issues", "notes",
    "owner", "priority", "status", "summary", "tags", "title", "updated_at">>
RECURSIVE Members(_, _)
Members(obj, n) ==
  IF n = 0 THEN <<>>
  ELSE IF Keys[n] \in DOMAIN obj
         THEN Append(Members(obj, n - 1), <<Keys[n], obj[Keys[n]]>>)
         ELSE Members(obj, n - 1)
DumpsObject(obj) == Members(obj, Len(Keys))
Dumps(doc) ==
  DumpsObject(IF "issues" \in DOMAIN doc
                THEN [doc EXCEPT !.issues =
                        [k \in DOMAIN doc.issues |-> DumpsObject(doc.issues[k])]]
                ELSE doc)

\* json.loads(text) of such a text.
LoadsObject(text) ==
  [key \in {text[k][1] : k \in DOMAIN text} |->
     text[CHOOSE k \in DOMAIN text : text[k][1] = key][2]]
Loads(text) ==
  LET obj == LoadsObject(text)
  IN IF "issues" \in DOMAIN obj
       THEN [obj EXCEPT !.issues =
               [k \in DOMAIN obj.issues |-> LoadsObject(obj.issues[k])]]
       ELSE obj

\* What is at a document's path: nothing, a text that json.loads rejects, or
\* the text of a document.
Missing == [state |-> "missing"]
Garbage == [state |-> "garbage"]
File(text) == [state |-> "json", text |-> text]

Docs == {"quick_issues", "simple_project", "ui_style"}

\* _default_quick_issues(), _default_simple_project(),
\* _default_ui_style_selection()
Default(d, date) ==
  CASE d = "quick_issues" -> [updated_at |-> date, issues |-> <<>>]
    [] d = "simple_project" ->
         [title |-> "Untitled project",
          summary |-> "Describe the current focus, scope, and key decisions here.",
          updated_at |-> date, entries |-> <<>>]
    [] d = "ui_style" ->
         [active_template_id |-> "", notes |-> "", updated_at |-> date]

\* _write_json(path, payload), run to its end by one thread alone: what is
\* then at path.
WriteJson(payload) == File(Dumps(payload))

\* Mutant of ReadJson: the file is not read.
ReadJson_AlwaysDefault(file, default) ==
  IF file.state = "json"
    THEN [data |-> default, file |-> file]
    ELSE [data |-> default, file |-> WriteJson(default)]

\* _read_json(path, default): the dictionary returned and what is at path
\* afterwards.
ReadJson(file, default) ==
  IF file.state = "json"
    THEN [data |-> Loads(file.text), file |-> file]
    ELSE [data |-> default, file |-> WriteJson(default)]

\* x.strip() raises AttributeError when x is not a string: `v or d` with a
\* true value v that is a number or a non-empty list.
StripRaises(payload, f) == ~IsStr(Or(Get(payload, f), ""))
Stamp == Months[today]

\* do_POST, /api/quick-issues, from the dictionary read to the response:
\* status is 200, 400 or 404, or 0 when an exception ends the handler with no
\* response; data is the dictionary written and sent with a 200.  pid is
\* payload["id"], None when the payload has no id.
QuickIssuesCreate(data, payload, now) ==
  LET issues == data.issues
      title == Strip(Or(Get(payload, "title"), ""))
      tags == Or(Get(payload, "tags"), "#[]")
      issue ==
        [id |-> NextIssueId(issues, now),
         title |-> title,
         status |-> NormalizeStatus(Get(payload, "status")),
         priority |-> NormalizePriority(Get(payload, "priority")),
         owner |-> Or(Strip(Or(Get(payload, "owner"), "unassigned")), "unassigned"),
         tags |-> SplitTags(tags),
         notes |-> Strip(Or(Get(payload, "notes"), "")),
         created_at |-> now,
         updated_at |-> now]
  IN IF StripRaises(payload, "title") THEN [status |-> 0, data |-> data]
     ELSE IF title = "" THEN [status |-> 400, data |-> data]
     ELSE IF \E f \in {"status", "priority", "owner", "notes"} :
               StripRaises(payload, f)
       THEN [status |-> 0, data |-> data]
     ELSE [status |-> 200,
           data |-> [data EXCEPT !.issues = Append(issues, issue),
                                 !.updated_at = now]]

QuickIssuesUpdate(data, payload, pid, action, now) ==
  LET issues == data.issues
      hits == {k \in 1..Len(issues) : issues[k].id = pid[1]}
      k == CHOOSE k \in hits : \A j \in hits : k <= j
      Has(f) == f \in DOMAIN payload
      t0 == issues[k]
      t1 == IF action = "close" THEN [t0 EXCEPT !.status = "closed"] ELSE t0
      t2 == IF Has("title")
              THEN [t1 EXCEPT !.title = Strip(Or(payload["title"], ""))]
              ELSE t1
      t3 == IF Has("status")
              THEN [t2 EXCEPT !.status = NormalizeStatus(payload["status"])]
              ELSE t2
      t4 == IF Has("priority")
              THEN [t3 EXCEPT !.priority = NormalizePriority(payload["priority"])]
              ELSE t3
      t5 == IF Has("owner")
              THEN [t4 EXCEPT !.owner =
                      Or(Strip(Or(payload["owner"], "unassigned")), "unassigned")]
              ELSE t4
      t6 == IF Has("tags")
              THEN [t5 EXCEPT !.tags = SplitTags(Or(payload["tags"], "#[]"))]
              ELSE t5
      t7 == IF Has("notes")
              THEN [t6 EXCEPT !.notes = Strip(Or(payload["notes"], ""))]
              ELSE t6
      target == [t7 EXCEPT !.updated_at = now]
  IN IF pid = None THEN [status |-> 400, data |-> data]
     ELSE IF hits = {} THEN [status |-> 404, data |-> data]
     ELSE IF \E f \in {"title", "status", "priority", "owner", "notes"} :
               Has(f) /\ StripRaises(payload, f)
       THEN [status |-> 0, data |-> data]
     ELSE [status |-> 200,
           data |-> [data EXCEPT !.issues = [issues EXCEPT ![k] = target],
                                 !.updated_at = now]]

QuickIssuesPost(data, payload, pid, now) ==
  LET given == Lower(Strip(Or(Get(payload, "action"), "")))
      action == IF given # "" THEN given
                ELSE IF pid # None THEN "update" ELSE "create"
  IN IF StripRaises(payload, "action") THEN [status |-> 0, data |-> data]
     ELSE IF action = "create" THEN QuickIssuesCreate(data, payload, now)
     ELSE IF action \in {"update", "close"}
       THEN QuickIssuesUpdate(data, payload, pid, action, now)
     ELSE [status |-> 400, data |-> data]

\* The elements of data["entries"]: a dictionary {"date", "text"} is the pair
\* <<date, text>>, a string x of a list in a payload is <<"#", x>>.
EntriesOf(v) == IF v = "#[a,b]" THEN << <<"#", "a">>, <<"#", "b">> >> ELSE <<>>

\* do_POST, /api/simple-project, up to _write_json.
SimpleProjectPost(data, payload, now) ==
  LET Has(f) == f \in DOMAIN payload
      d1 == IF Has("title")
              THEN [data EXCEPT !.title =
                      Strip(Or(payload["title"], "Untitled project"))]
              ELSE data
      d2 == IF Has("summary")
              THEN [d1 EXCEPT !.summary = Strip(Or(payload["summary"], ""))]
              ELSE d1
      d3 == IF Has("entries") /\ IsList(payload["entries"])
              THEN [d2 EXCEPT !.entries = EntriesOf(payload["entries"])]
              ELSE d2
      entry_text == Strip(Or(Get(payload, "entry"), ""))
      d4 == IF Has("entry") /\ entry_text # ""
              THEN [d3 EXCEPT !.entries = Append(d3.entries, <<now, entry_text>>)]
              ELSE d3
  IN IF \E f \in {"title", "summary", "entry"} : Has(f) /\ StripRaises(payload, f)
       THEN [status |-> 0, data |-> data]
       ELSE [status |-> 200, data |-> [d4 EXCEPT !.updated_at = now]]

\* _render_simple_project_md(payload): entry.get raises AttributeError on an
\* entry that is not a dictionary.
RenderRaises(data) == \E k \in DOMAIN data.entries : data.entries[k][1] = "#"
Render(data) ==
  [title |-> Strip(Or(data.title, "Untitled project")),
   summary |-> Or(Strip(Or(data.summary, "")),
                  "Describe the current focus, scope, and key decisions here."),
   entries |-> data.entries]

\* do_POST, /api/ui-style, up to _write_json.
UiStylePost(data, payload, now) ==
  LET Has(f) == f \in DOMAIN payload
      d1 == IF Has("active_template_id")
              THEN [data EXCEPT !.active_template_id =
                      Strip(Or(payload["active_template_id"], ""))]
              ELSE data
      d2 == IF Has("notes")
              THEN [d1 EXCEPT !.notes = Strip(Or(payload["notes"], ""))]
              ELSE d1
  IN IF \E f \in {"active_template_id", "notes"} :
          Has(f) /\ StripRaises(payload, f)
       THEN [status |-> 0, data |-> data]
       ELSE [status |-> 200, data |-> [d2 EXCEPT !.updated_at = now]]

\* The issue ids a payload may name: those in the file, and one that is not.
UnknownId == IssueId(Months[1], <<9, 9, 9>>)
KnownIds ==
  IF store["quick_issues"].state # "json" THEN {}
  ELSE LET issues == Loads(store["quick_issues"].text).issues
       IN {issues[k].id : k \in DOMAIN issues}

\* Request bodies for POST /api/quick-issues, without their "id".
CreatePayloads ==
  {[title |-> "Fix"],
   [title |-> " Fix ", status |-> " Closed ", priority |-> " HIGH ",
    owner |-> " me ", tags |-> "a, b", notes |-> " note "],
   [action |-> "create", title |-> "Fix", status |-> "bogus",
    priority |-> "urgent"],
   [title |-> "Fix", status |-> "#5"],
   [title |-> " "]}
UpdatePayloads ==
  {[status |-> "in_progress"],
   [action |-> " Close "],
   [action |-> "close", status |-> "bogus"],
   [title |-> " Fix ", priority |-> "urgent", owner |-> "", tags |-> "#[a,b]",
    notes |-> "#null"],
   [action |-> "delete"],
   [status |-> "#5"]}

\* Request bodies for POST /api/simple-project and POST /api/ui-style.
ProjectPayloads ==
  {[title |-> "Fix"],
   [title |-> " Fix ", summary |-> " note "],
   [title |-> "#null", entry |-> " note "],
   [entries |-> "#[]", entry |-> " "],
   [entries |-> "#[a,b]"],
   [entries |-> "Fix"],
   [summary |-> "#5"]}
StylePayloads ==
  {[active_template_id |-> "Fix"],
   [active_template_id |-> " Fix ", notes |-> " note "],
   [notes |-> "#null"],
   [notes |-> "#5"]}

\* A request has been handled: its record in `last`.
Handled(op, d, payload, pid, found, before, out) ==
  [op |-> op, doc |-> d, payload |-> payload, pid |-> pid, found |-> found,
   before |-> before, status |-> out.status, data |-> out.data]

\* do_POST, /api/quick-issues
PostQuickIssues(payload, pid) ==
  /\ requests < MaxRequests
  /\ LET d == "quick_issues"
         r == ReadJson(store[d], Default(d, Stamp))
         out == QuickIssuesPost(r.data, payload, pid, Stamp)
         ok == out.status = 200
     IN /\ store' = [store EXCEPT ![d] = IF ok THEN WriteJson(out.data) ELSE r.file]
        /\ last' = Handled("POST", d, payload, pid, store[d].state, r.data, out)
        /\ written' =
             [written EXCEPT ![d] =
                IF ok THEN Some([payload |-> payload,
                                 id |-> IF pid # None /\ Len(out.data.issues) = Len(r.data.issues)
                                          THEN pid[1]
                                          ELSE out.data.issues[Len(out.data.issues)].id,
                                 data |-> out.data])
                ELSE IF r.file # store[d] THEN None ELSE @]
  /\ requests' = requests + 1
  /\ UNCHANGED <<project_md, today>>
  /\ UNCHANGED <<serverVars, diffVars, reintVars, writeVars>>

\* do_POST, /api/simple-project: the document is written, then the Markdown
\* file; an exception in between leaves the request without a response.
PostSimpleProject(payload) ==
  /\ requests < MaxRequests
  /\ LET d == "simple_project"
         r == ReadJson(store[d], Default(d, Stamp))
         out == SimpleProjectPost(r.data, payload, Stamp)
         ok == out.status = 200
         sent == IF ok /\ RenderRaises(out.data)
                   THEN [status |-> 0, data |-> out.data]
                   ELSE out
     IN /\ store' = [store EXCEPT ![d] = IF ok THEN WriteJson(out.data) ELSE r.file]
        /\ project_md' = IF sent.status = 200 THEN Some(Render(out.data))
                         ELSE project_md
        /\ last' = Handled("POST", d, payload, None, store[d].state, r.data, sent)
        /\ written' =
             [written EXCEPT ![d] =
                IF ok THEN Some([payload |-> payload, id |-> UnknownId,
                                 data |-> out.data])
                ELSE IF r.file # store[d] THEN None ELSE @]
  /\ requests' = requests + 1
  /\ UNCHANGED today
  /\ UNCHANGED <<serverVars, diffVars, reintVars, writeVars>>

\* do_POST, /api/ui-style
PostUiStyle(payload) ==
  /\ requests < MaxRequests
  /\ LET d == "ui_style"
         r == ReadJson(store[d], Default(d, Stamp))
         out == UiStylePost(r.data, payload, Stamp)
         ok == out.status = 200
     IN /\ store' = [store EXCEPT ![d] = IF ok THEN WriteJson(out.data) ELSE r.file]
        /\ last' = Handled("POST", d, payload, None, store[d].state, r.data, out)
        /\ written' =
             [written EXCEPT ![d] =
                IF ok THEN Some([payload |-> payload, id |-> UnknownId,
                                 data |-> out.data])
                ELSE IF r.file # store[d] THEN None ELSE @]
  /\ requests' = requests + 1
  /\ UNCHANGED <<project_md, today>>
  /\ UNCHANGED <<serverVars, diffVars, reintVars, writeVars>>

\* do_GET, /api/quick-issues, /api/simple-project, /api/ui-style
GetDoc(d) ==
  /\ requests < MaxRequests
  /\ LET r == ReadJson(store[d], Default(d, Stamp))
     IN /\ store' = [store EXCEPT ![d] = r.file]
        /\ last' = Handled("GET", d, <<>>, None, store[d].state, r.data,
                           [status |-> 200, data |-> r.data])
        /\ written' = [written EXCEPT ![d] = IF r.file # store[d] THEN None ELSE @]
  /\ requests' = requests + 1
  /\ UNCHANGED <<project_md, today>>
  /\ UNCHANGED <<serverVars, diffVars, reintVars, writeVars>>

\* Outside the server: a document's file is removed, or overwritten with
\* something that is not JSON.
FileLost(d) ==
  /\ store[d].state # "missing"
  /\ store' = [store EXCEPT ![d] = Missing]
  /\ written' = [written EXCEPT ![d] = None]
  /\ last' = NoRequest
  /\ UNCHANGED <<project_md, today, requests>>
  /\ UNCHANGED <<serverVars, diffVars, reintVars, writeVars>>

FileGarbled(d) ==
  /\ store[d].state # "garbage"
  /\ store' = [store EXCEPT ![d] = Garbage]
  /\ written' = [written EXCEPT ![d] = None]
  /\ last' = NoRequest
  /\ UNCHANGED <<project_md, today, requests>>
  /\ UNCHANGED <<serverVars, diffVars, reintVars, writeVars>>

\* The month ends.
NextMonth ==
  /\ today < Len(Months)
  /\ today' = today + 1
  /\ last' = NoRequest
  /\ UNCHANGED <<store, project_md, requests, written>>
  /\ UNCHANGED <<serverVars, diffVars, reintVars, writeVars>>

\* The issue tracker: an empty data directory, or nine issues filed in the
\* first month; then any requests to /api/quick-issues.
FiledIssue(n) ==
  [id |-> IssueId(Months[1], Pad3(n)), title |-> "Fix", status |-> "open",
   priority |-> "medium", owner |-> "unassigned", tags |-> "#[]", notes |-> "",
   created_at |-> Months[1], updated_at |-> Months[1]]
Filed(n) ==
  WriteJson([updated_at |-> Months[1], issues |-> [k \in 1..n |-> FiledIssue(k)]])

\* Issue creation: an empty data directory, or nine issues filed in the
\* first month; then requests that create issues, over two months.
InitCreate ==
  /\ InitServer
  /\ NoDiff
  /\ NoReint
  /\ store \in {[d \in Docs |-> IF d = "quick_issues" THEN f ELSE Missing] :
                 f \in {Missing, Filed(9)}}
  /\ project_md = None
  /\ today = 1
  /\ requests = 0
  /\ last = NoRequest
  /\ written = [d \in Docs |-> None]
  /\ disk = [doc |-> 0, tmp |-> 0, inodes |-> <<>>]
  /\ io = <<>>
  /\ crashed = FALSE

NextCreate ==
  \/ \E payload \in CreatePayloads : PostQuickIssues(payload, None)
  \/ GetDoc("quick_issues")
  \/ NextMonth

SpecCreate == InitCreate /\ [][NextCreate]_vars

\* The issue tracker: an empty data directory, then any requests to
\* /api/quick-issues.
InitIssues == InitServer /\ NoDiff /\ NoReint /\ NoDocs

NextIssues ==
  \/ \E payload \in CreatePayloads : PostQuickIssues(payload, None)
  \/ \E payload \in UpdatePayloads, id \in KnownIds :
       PostQuickIssues(payload, Some(id))
  \/ PostQuickIssues([action |-> "update"], None)
  \/ PostQuickIssues([action |-> "close"], Some(UnknownId))
  \/ GetDoc("quick_issues")

SpecIssues == InitIssues /\ [][NextIssues]_vars

\* The three documents, one at a time: any requests, and the file lost or
\* garbled in between.
InitDocs == InitServer /\ NoDiff /\ NoReint /\ NoDocs
Alone(d) == \A e \in Docs \ {d} : store[e].state = "missing"

NextDocs ==
  \/ \E payload \in {p \in CreatePayloads : "status" \in DOMAIN p} :
       Alone("quick_issues") /\ PostQuickIssues(payload, None)
  \/ \E payload \in {p \in UpdatePayloads : "title" \in DOMAIN p},
        id \in KnownIds :
       PostQuickIssues(payload, Some(id))
  \/ \E payload \in ProjectPayloads :
       Alone("simple_project") /\ PostSimpleProject(payload)
  \/ \E payload \in StylePayloads : Alone("ui_style") /\ PostUiStyle(payload)
  \/ \E d \in Docs : Alone(d) /\ GetDoc(d)
  \/ \E d \in Docs : FileLost(d)
  \/ \E d \in Docs : FileGarbled(d)

SpecDocs == InitDocs /\ [][NextDocs]_vars

\* ---- _write_json and _read_json, statement by statement --------------------

\* One document.  disk.doc and disk.tmp are the directory entries of path
\* and of path + ".tmp": the number of the file each names, 0 for none.
\* disk.inodes[n] is the content of file n: a sequence of blocks.  The text
\* of a document reaches its file in NumBlocks writes; block <<c, k>> is the
\* k-th block of the text of document c.  Document 0 is the default,
\* document -1 what was at path before, document w the payload of thread w.
NumBlocks == 2
Hole == <<0, 0>>
Text(c) == [k \in 1..NumBlocks |-> <<c, k>>]
Parses(content) == \E c \in -1..NumHandlers : content = Text(c)

\* write() at offset pos of a file with this content.
WriteAt(content, pos, block) ==
  [k \in 1..(IF pos > Len(content) THEN pos ELSE Len(content)) |->
     IF k = pos THEN block
     ELSE IF k <= Len(content) THEN content[k] ELSE Hole]

\* Request threads: a POST that writes its payload, or a GET.  Each is at
\* the start of _read_json; a POST reads the document before it writes.
IoThread(kind) == [kind |-> kind, pc |-> "exists", fd |-> 0, pos |-> 0, src |-> 0]

InitWrite ==
  /\ InitServer
  /\ NoDiff
  /\ NoReint
  /\ store = [d \in Docs |-> Missing]
  /\ project_md = None
  /\ today = 1
  /\ requests = 0
  /\ last = NoRequest
  /\ written = [d \in Docs |-> None]
  /\ disk \in {[doc |-> 0, tmp |-> 0, inodes |-> <<>>],
               [doc |-> 1, tmp |-> 0, inodes |-> <<Text(-1)>>]}
  /\ io \in [1..NumHandlers -> {IoThread("GET"), IoThread("POST")}]
  /\ crashed = FALSE

OtherUnchanged ==
  /\ UNCHANGED <<serverVars, diffVars, reintVars, docVars>>

\* _read_json: `if not path.exists()`
ReadExists(w) ==
  /\ ~crashed
  /\ io[w].pc = "exists"
  /\ io' = [io EXCEPT ![w].pc = IF disk.doc = 0 THEN "open" ELSE "read",
                      ![w].src = 0]
  /\ UNCHANGED <<disk, crashed>>
  /\ OtherUnchanged

\* _read_json: json.loads(path.read_text()).  On an exception the default is
\* written; otherwise a GET is done and a POST goes on to write its payload.
ReadText(w) ==
  /\ ~crashed
  /\ io[w].pc = "read"
  /\ io' = [io EXCEPT ![w].pc = IF ~Parses(disk.inodes[disk.doc]) THEN "open"
                                ELSE IF io[w].kind = "POST" THEN "post"
                                ELSE "done"]
  /\ UNCHANGED <<disk, crashed>>
  /\ OtherUnchanged

\* do_POST between _read_json and _write_json(path, data).
PostData(w) ==
  /\ ~crashed
  /\ io[w].pc = "post"
  /\ io' = [io EXCEPT ![w].pc = "open", ![w].src = w]
  /\ UNCHANGED <<disk, crashed>>
  /\ OtherUnchanged

\* _write_json: tmp.write_text opens tmp for writing, which empties the file
\* tmp names or creates one.
WriteOpen(w) ==
  /\ ~crashed
  /\ io[w].pc = "open"
  /\ IF disk.tmp # 0
       THEN /\ disk' = [disk EXCEPT !.inodes[disk.tmp] = <<>>]
            /\ io' = [io EXCEPT ![w].pc = "write", ![w].fd = disk.tmp, ![w].pos = 0]
       ELSE /\ disk' = [disk EXCEPT !.inodes = Append(@, <<>>),
                                    !.tmp = Len(disk.inodes) + 1]
            /\ io' = [io EXCEPT ![w].pc = "write",
                                ![w].fd = Len(disk.inodes) + 1, ![w].pos = 0]
  /\ UNCHANGED crashed
  /\ OtherUnchanged

\* _write_json: tmp.write_text writes the next block through its descriptor.
WriteBlock(w) ==
  /\ ~crashed
  /\ io[w].pc = "write"
  /\ disk' = [disk EXCEPT !.inodes[io[w].fd] =
                WriteAt(@, io[w].pos + 1, <<io[w].src, io[w].pos + 1>>)]
  /\ io' = [io EXCEPT ![w].pos = @ + 1,
                      ![w].pc = IF io[w].pos + 1 = NumBlocks THEN "replace"
                                ELSE "write"]
  /\ UNCHANGED crashed
  /\ OtherUnchanged

\* _write_json: tmp.replace(path); FileNotFoundError when tmp names nothing.
\* A default written by _read_json is returned to a GET; a POST goes on.
WriteReplace(w) ==
  /\ ~crashed
  /\ io[w].pc = "replace"
  /\ IF disk.tmp = 0
       THEN /\ io' = [io EXCEPT ![w].pc = "raised"]
            /\ UNCHANGED disk
       ELSE /\ disk' = [disk EXCEPT !.doc = disk.tmp, !.tmp = 0]
            /\ io' = [io EXCEPT ![w].pc =
                        IF io[w].kind = "POST" /\ io[w].src = 0 THEN "post"
                        ELSE "done"]
  /\ UNCHANGED crashed
  /\ OtherUnchanged

\* The server process is killed.
Crash ==
  /\ ~crashed
  /\ crashed' = TRUE
  /\ UNCHANGED <<disk, io>>
  /\ OtherUnchanged

NextWrite ==
  \/ \E w \in DOMAIN io : ReadExists(w)
  \/ \E w \in DOMAIN io : ReadText(w)
  \/ \E w \in DOMAIN io : PostData(w)
  \/ \E w \in DOMAIN io : WriteOpen(w)
  \/ \E w \in DOMAIN io : WriteBlock(w)
  \/ \E w \in DOMAIN io : WriteReplace(w)
  \/ Crash

SpecWrite == InitWrite /\ [][NextWrite]_vars

\* ---- the lock and the file system (status_payload, start_job, get_job) -----

\* do_POST, path /api/run, up to the call of start_job: an action that is not
\* a key of server.actions is answered 400; otherwise start_job begins.
PostRunBegin(a) ==
  /\ IF a \notin DOMAIN ActionSpecs
       THEN /\ Arrive([Request("/api/run") EXCEPT !.pc = "rejected", !.action = a,
                                                  !.resp = 400])
            /\ UNCHANGED submitted
       ELSE /\ submitted < MaxJobs
            /\ Arrive([Request("/api/run") EXCEPT !.pc = "sj_path", !.action = a])
            /\ submitted' = submitted + 1
  /\ UNCHANGED <<jobs, job_order, queue, queue_running, error_log, lock, workers,
                 files, runOrder, started, exits, sinceClear>>
  /\ UNCHANGED otherVars

\* start_job: self._job_log_path(job_id, action), which creates the log
\* directory (it exists from then on: nothing in the model depends on it);
\* then the Job is built, status 'queued'.
StartJobLogPath(r) ==
  /\ r.pc = "sj_path"
  /\ Move(r, [r EXCEPT !.pc = "sj_lock"])
  /\ UNCHANGED <<jobs, job_order, queue, queue_running, error_log, lock, workers,
                 files, submitted, runOrder, started, exits, sinceClear>>
  /\ UNCHANGED otherVars

\* Mutant of GetStatus: status_payload takes the lock before it reads.
GetStatus_LockFirst ==
  /\ lock = Free
  /\ lock' = HandlerTid
  /\ Arrive([Request("/api/status") EXCEPT !.pc = "sp_read"])
  /\ UNCHANGED <<jobs, job_order, queue, queue_running, error_log, workers, files,
                 submitted, runOrder, started, exits, sinceClear>>
  /\ UNCHANGED otherVars

\* do_GET, path /api/status: status_payload is called.
GetStatus ==
  /\ Arrive([Request("/api/status") EXCEPT !.pc = "sp_read"])
  /\ UNCHANGED <<jobs, job_order, queue, queue_running, error_log, lock, workers,
                 files, submitted, runOrder, started, exits, sinceClear>>
  /\ UNCHANGED otherVars

\* status_payload before the with block: the three _iso_mtime calls and the
\* three _read_json calls, each of which writes the default where the file
\* is missing or does not parse.
StatusRead(r) ==
  LET after == [d \in Docs |-> ReadJson(store[d], Default(d, Stamp)).file] IN
  /\ r.pc = "sp_read"
  /\ store' = after
  /\ written' = [d \in Docs |-> IF after[d] # store[d] THEN None ELSE written[d]]
  /\ Move(r, [r EXCEPT !.pc = "sp_lock"])
  /\ UNCHANGED <<jobs, job_order, queue, queue_running, error_log, lock, workers,
                 files, submitted, runOrder, started, exits, sinceClear>>
  /\ UNCHANGED <<project_md, today, requests, last>>
  /\ UNCHANGED <<diffVars, reintVars, writeVars>>

\* status_payload: `with self.lock:` entered.
StatusLock(r) ==
  /\ r.pc = "sp_lock"
  /\ lock = Free
  /\ lock' = HandlerTid
  /\ Move(r, [r EXCEPT !.pc = "sp_cs"])
  /\ UNCHANGED <<jobs, job_order, queue, queue_running, error_log, workers, files,
                 submitted, runOrder, started, exits, sinceClear>>
  /\ UNCHANGED otherVars

\* status_payload: the body of the with block, which copies from jobs,
\* job_order and error_log into locals, and the release of the lock; then
\* the dictionary is returned and sent, and the request thread ends.
StatusCritical(r) ==
  /\ r.pc = "sp_cs"
  /\ lock = HandlerTid
  /\ lock' = Free
  /\ Leave(r)
  /\ UNCHANGED <<jobs, job_order, queue, queue_running, error_log, workers, files,
                 submitted, runOrder, started, exits, sinceClear>>
  /\ UNCHANGED otherVars

\* do_GET, path /api/jobs/<id>: get_job is called and takes the lock.  tail
\* is the request's tail parameter.
GetJobLock(id, tail) ==
  /\ lock = Free
  /\ lock' = HandlerTid
  /\ Arrive([Request("/api/jobs/") EXCEPT !.pc = "gj_cs", !.job = Some(id),
                                          !.resp = tail])
  /\ UNCHANGED <<jobs, job_order, queue, queue_running, error_log, workers, files,
                 submitted, runOrder, started, exits, sinceClear>>
  /\ UNCHANGED otherVars

\* get_job: self.jobs.get(job_id) and the release of the lock.  Without a
\* job the answer is 404; with tail = 0 it is the job as it is; in both
\* cases the request thread ends.  Otherwise the log is read next.
GetJobCritical(r) ==
  /\ r.pc = "gj_cs"
  /\ lock = HandlerTid
  /\ lock' = Free
  /\ IF r.job[1] \in DOMAIN jobs /\ r.resp > 0
       THEN Move(r, [r EXCEPT !.pc = "gj_tail"])
       ELSE Leave(r)
  /\ UNCHANGED <<jobs, job_order, queue, queue_running, error_log, workers, files,
                 submitted, runOrder, started, exits, sinceClear>>
  /\ UNCHANGED otherVars

\* do_GET, path /api/jobs/<id>: _tail_lines reads the job's log file; the
\* answer is sent and the request thread ends.
GetJobTail(r) ==
  /\ r.pc = "gj_tail"
  /\ Leave(r)
  /\ UNCHANGED <<jobs, job_order, queue, queue_running, error_log, lock, workers,
                 files, submitted, runOrder, started, exits, sinceClear>>
  /\ UNCHANGED otherVars

\* The server and everything that takes its lock: jobs of one command,
\* status and job requests, clears.  The handlers of the document endpoints
\* never name the lock and are left out.
InitLock == InitServer /\ NoDiff /\ NoReint /\ NoDocs

NextLock ==
  \/ \E a \in {"render_pm", "bogus"} : PostRunBegin(a)
  \/ \E r \in BagToSet(handlers) : StartJobLogPath(r)
  \/ \E r \in BagToSet(handlers) : StartJobLock(r)
  \/ \E r \in BagToSet(handlers) : StartJobCritical(r)
  \/ \E r \in BagToSet(handlers) : StartJobSpawn(r)
  \/ PostClearLock
  \/ \E r \in BagToSet(handlers) : PostClearCritical(r)
  \/ \E r \in BagToSet(handlers) : Finish(r)
  \/ GetStatus
  \/ \E r \in BagToSet(handlers) : StatusRead(r)
  \/ \E r \in BagToSet(handlers) : StatusLock(r)
  \/ \E r \in BagToSet(handlers) : StatusCritical(r)
  \/ \E id \in {1, MaxJobs + 1}, tail \in {0, 1} : GetJobLock(id, tail)
  \/ \E r \in BagToSet(handlers) : GetJobCritical(r)
  \/ \E r \in BagToSet(handlers) : GetJobTail(r)
  \/ \E w \in BagToSet(workers) : QueueWorkerLock(w)
  \/ \E w \in BagToSet(workers) : QueueWorkerCritical(w)
  \/ \E w \in BagToSet(workers) : RunJobStatus(w)
  \/ \E w \in BagToSet(workers) : RunJobStarted(w)
  \/ \E w \in BagToSet(workers) : RunJobOpen(w)
  \/ \E w \in BagToSet(workers) : RunJobWrite(w)
  \/ \E w \in BagToSet(workers) : RunJobPopen(w)
  \/ \E w \in BagToSet(workers), rc \in ExitCodes : RunJobWait(w, rc)
  \/ \E w \in BagToSet(workers) : RunJobReturncode(w)
  \/ \E w \in BagToSet(workers) : RunJobEnded(w)
  \/ \E w \in BagToSet(workers) : RunJobFinal(w)
  \/ \E w \in BagToSet(workers) : ErrorLogLock(w)
  \/ \E w \in BagToSet(workers) : ErrorLogAppend(w)
  \/ \E w \in BagToSet(workers) : ErrorLogTrim(w)

SpecLock == InitLock /\ [][NextLock]_vars

\* ---- issue creation by concurrent request threads --------------------------

\* The locals of a request thread of POST /api/quick-issues as it begins:
\* the payload, the dictionary it will write, the status it has sent.
\* _read_json and _write_json are each taken as one step here.
CreateThread(payload) ==
  [pc |-> "read", payload |-> payload, data |-> None, status |-> 0]

\* do_POST, /api/quick-issues: a request arrives on a thread of its own.
CreateBegin(payload) ==
  /\ requests < MaxRequests
  /\ requests' = requests + 1
  /\ io' = Append(io, CreateThread(payload))
  /\ UNCHANGED <<store, project_md, today, last, written, disk, crashed>>
  /\ UNCHANGED <<serverVars, diffVars, reintVars>>

\* do_POST, /api/quick-issues: data = _read_json(...), then the issue is
\* built and appended to the thread's own copy of the list; a payload
\* without a title is answered 400.
CreateRead(w) ==
  LET d == "quick_issues"
      r == ReadJson(store[d], Default(d, Stamp))
      out == QuickIssuesPost(r.data, io[w].payload, None, Stamp)
  IN
  /\ io[w].pc = "read"
  /\ store' = [store EXCEPT ![d] = r.file]
  /\ io' = [io EXCEPT ![w] =
              IF out.status = 200
                THEN [@ EXCEPT !.pc = "write", !.data = Some(out.data)]
                ELSE [@ EXCEPT !.pc = "done", !.status = out.status]]
  /\ UNCHANGED <<project_md, today, requests, last, written, disk, crashed>>
  /\ UNCHANGED <<serverVars, diffVars, reintVars>>

\* do_POST, /api/quick-issues: _write_json(QUICK_ISSUES_PATH, data) and the
\* 200 response with data.
CreateWrite(w) ==
  /\ io[w].pc = "write"
  /\ store' = [store EXCEPT !["quick_issues"] = WriteJson(io[w].data[1])]
  /\ io' = [io EXCEPT ![w] = [@ EXCEPT !.pc = "done", !.status = 200]]
  /\ UNCHANGED <<project_md, today, requests, last, written, disk, crashed>>
  /\ UNCHANGED <<serverVars, diffVars, reintVars>>

\* An empty data directory, then create requests on concurrent threads.
InitRace == InitServer /\ NoDiff /\ NoReint /\ NoDocs

NextRace ==
  \/ \E payload \in {[title |-> "Fix"], [title |-> " "],
                     [title |-> "Fix", status |-> "closed"]} : CreateBegin(payload)
  \/ \E w \in DOMAIN io : CreateRead(w)
  \/ \E w \in DOMAIN io : CreateWrite(w)

SpecRace == InitRace /\ [][NextRace]_vars

\* ---- a worker whose subprocess cannot be launched --------------------------

\* _run_job: subprocess.Popen raises OSError (the interpreter named by
\* --python is not found; main accepts the names "python" and "python3"
\* unchecked).  Nothing in _run_job or _queue_worker catches it: the with
\* statement closes the log and the worker thread ends.
RunJobPopenRaises(w) ==
  /\ w.pc = "rj_popen"
  /\ LeaveWorker(w)
  /\ UNCHANGED <<jobs, job_order, queue, queue_running, error_log, lock, handlers,
                 files, submitted, runOrder, started, exits, sinceClear>>
  /\ UNCHANGED otherVars

\* The steps of Next, and the launch that fails.
NextFail ==
  \/ \E a \in ActionInputs : PostRun(a)
  \/ \E r \in BagToSet(handlers) : StartJobLock(r)
  \/ \E r \in BagToSet(handlers) : StartJobCritical(r)
  \/ \E r \in BagToSet(handlers) : StartJobSpawn(r)
  \/ PostClearLock
  \/ \E r \in BagToSet(handlers) : PostClearCritical(r)
  \/ \E r \in BagToSet(handlers) : Finish(r)
  \/ \E w \in BagToSet(workers) : QueueWorkerLock(w)
  \/ \E w \in BagToSet(workers) : QueueWorkerCritical(w)
  \/ \E w \in BagToSet(workers) : RunJobStatus(w)
  \/ \E w \in BagToSet(workers) : RunJobStarted(w)
  \/ \E w \in BagToSet(workers) : RunJobOpen(w)
  \/ \E w \in BagToSet(workers) : RunJobWrite(w)
  \/ \E w \in BagToSet(workers) : RunJobPopen(w)
  \/ \E w \in BagToSet(workers) : RunJobPopenRaises(w)
  \/ \E w \in BagToSet(workers), rc \in ExitCodes : RunJobWait(w, rc)
  \/ \E w \in BagToSet(workers) : RunJobReturncode(w)
  \/ \E w \in BagToSet(workers) : RunJobEnded(w)
  \/ \E w \in BagToSet(workers) : RunJobFinal(w)
  \/ \E w \in BagToSet(workers) : ErrorLogLock(w)
  \/ \E w \in BagToSet(workers) : ErrorLogAppend(w)
  \/ \E w \in BagToSet(workers) : ErrorLogTrim(w)

\* A step of a live worker thread that returns from the call it is in: the
\* lock is granted, a statement is executed, the subprocess exits.
WorkerStep ==
  \E w \in BagToSet(workers) :
    \/ QueueWorkerLock(w)
    \/ QueueWorkerCritical(w)
    \/ RunJobStatus(w)
    \/ RunJobStarted(w)
    \/ RunJobOpen(w)
    \/ RunJobWrite(w)
    \/ RunJobPopen(w)
    \/ \E rc \in ExitCodes : RunJobWait(w, rc)
    \/ RunJobReturncode(w)
    \/ RunJobEnded(w)
    \/ RunJobFinal(w)
    \/ ErrorLogLock(w)
    \/ ErrorLogAppend(w)
    \/ ErrorLogTrim(w)

\* Scheduling: a worker that can take a step infinitely often takes one (the
\* lock is granted to it at some point, every subprocess launched exits); a
\* request thread inside a with block, or past it, goes on.
Fairness ==
  /\ SF_vars(WorkerStep)
  /\ WF_vars(\E r \in BagToSet(handlers) : StartJobCritical(r))
  /\ WF_vars(\E r \in BagToSet(handlers) : StartJobSpawn(r))
  /\ WF_vars(\E r \in BagToSet(handlers) : PostClearCritical(r))

SpecLive == Init /\ [][Next]_vars /\ Fairness
SpecFail == Init /\ [][NextFail]_vars /\ Fairness

\* ---- properties of the job queue ------------------------------------------

StatusIs(st) == {id \in DOMAIN jobs : jobs[id].status = st}
Terminal(id) == jobs[id].status \in {"done", "error"}
InFlight(pc) == {r \in BagToSet(handlers) : r.pc = pc}

\* C1: whatever the interleaving of submissions and worker steps, at most
\* one job has status 'running'.
C1_AtMostOneRunning == Cardinality(StatusIs("running")) <= 1

\* C1 witness: a job is running while a second job, submitted meanwhile,
\* waits in the queue.
C1_Witness ==
  /\ Cardinality(StatusIs("running")) = 1
  /\ Cardinality(StatusIs("queued")) >= 1
  /\ queue # <<>>

\* Submitters that have flipped the flag and not yet started their thread.
PendingStarts == {r \in BagToSet(handlers) : r.pc = "sj_spawn" /\ r.should_start}
NumPendingStarts ==
  LET B == [r \in PendingStarts |-> CopiesIn(r, handlers)] IN BagCardinality(B)

IsPrefix(s, t) == Len(s) <= Len(t) /\ s = SubSeq(t, 1, Len(s))

\* C3: jobs are set 'running' in the order of job_order.
C3_Fifo == IsPrefix(runOrder, job_order)

\* C3 witness: two jobs had both been queued before the first was popped,
\* and both have since been set running.
C3_Witness == Len(runOrder) >= 2 /\ Len(job_order) >= 2

StatusSteps == {<<"queued", "running">>, <<"running", "done">>, <<"running", "error">>}

\* C4: a job is created 'queued'; each change of its status is
\* queued -> running, running -> done or running -> error, so a terminal
\* status never changes again.
C4_StatusMonotonic ==
  [][\A id \in DOMAIN jobs' :
       IF id \in DOMAIN jobs
         THEN \/ jobs'[id].status = jobs[id].status
              \/ <<jobs[id].status, jobs'[id].status>> \in StatusSteps
         ELSE jobs'[id].status = "queued"]_vars

\* C4 witness: one job has ended 'done', another 'error'.
C4_Witness == StatusIs("done") # {} /\ StatusIs("error") # {}

\* Position of the first non-zero exit code in e; 0 if there is none.
FirstFailure(e) ==
  IF \E k \in 1..Len(e) : e[k] # 0
    THEN CHOOSE k \in 1..Len(e) : e[k] # 0 /\ \A m \in 1..(k - 1) : e[m] = 0
    ELSE 0

\* C5: once a command of a job has exited non-zero, it is the last command
\* of the job that was started and waited for; the job never becomes 'done',
\* and when it is terminal its status is 'error' and its returncode is that
\* exit code.
C5_StopAtFirstFailure ==
  \A id \in DOMAIN exits :
    LET k == FirstFailure(exits[id]) IN
    k # 0 =>
      /\ Len(exits[id]) = k
      /\ Len(started[id]) = k
      /\ jobs[id].status # "done"
      /\ Terminal(id) =>
           /\ jobs[id].status = "error"
           /\ jobs[id].returncode = Some(exits[id][k])

\* C5 witness: the first of two commands exited with code 2; the job has
\* ended and the second command was never started.
C5_Witness ==
  \E id \in DOMAIN exits :
    /\ Len(CommandFor(jobs[id].action)) = 2
    /\ exits[id] = <<2>>
    /\ Terminal(id)

Zeros(n) == [k \in 1..n |-> 0]
RunLines(commands) == [k \in 1..Len(commands) |-> <<"RUN", commands[k]>>]

\* C6: a terminal job is 'done' exactly if all commands of its action were
\* started, in list order, and all exited 0; then its returncode is 0 and
\* its log holds the RUN lines of the commands in order.  At every moment
\* the commands started so far are covered, one to one and in order, by RUN
\* lines already in the log.
C6_DoneIffAllZero ==
  /\ \A id \in DOMAIN jobs :
       Terminal(id) =>
         LET commands == CommandFor(jobs[id].action) IN
         /\ jobs[id].status = "done" <=>
              (started[id] = commands /\ exits[id] = Zeros(Len(commands)))
         /\ jobs[id].status = "done" =>
              /\ jobs[id].returncode = Some(0)
              /\ files[id] = RunLines(commands)
  /\ \A id \in DOMAIN started : IsPrefix(RunLines(started[id]), files[id])

\* C6 witness: a job of two commands has ended 'done'.
C6_Witness ==
  \E id \in StatusIs("done") : Len(CommandFor(jobs[id].action)) = 2

Range(s) == {s[k] : k \in 1..Len(s)}
added == diff[1][1]
removed == diff[1][2]
changed == diff[1][3]
unchanged == diff[1][4]

\* C9: the four lists returned by _diff_manifests are pairwise disjoint,
\* none repeats a path, and together they hold exactly the paths that are a
\* key of current or of incoming.
C9_DiffPartition ==
  diff # None =>
    /\ \A i, j \in 1..4 : i # j => Range(diff[1][i]) \cap Range(diff[1][j]) = {}
    /\ \A i \in 1..4 : Cardinality(Range(diff[1][i])) = Len(diff[1][i])
    /\ UNION {Range(diff[1][i]) : i \in 1..4} = DOMAIN current \cup DOMAIN incoming

\* C9 witness: a diff in which each of the four lists is non-empty.
C9_Witness ==
  /\ diff # None
  /\ \A i \in 1..4 : diff[1][i] # <<>>

\* C10: added holds the paths only in incoming, removed the paths only in
\* current, changed the common paths whose hashes differ, unchanged the
\* common paths whose hashes are equal.
C10_DiffContents ==
  diff # None =>
    \A p \in Paths :
      /\ p \in Range(added) <=> (p \in DOMAIN incoming /\ p \notin DOMAIN current)
      /\ p \in Range(removed) <=> (p \in DOMAIN current /\ p \notin DOMAIN incoming)
      /\ p \in Range(changed) <=>
           (p \in DOMAIN current /\ p \in DOMAIN incoming /\ current[p] # incoming[p])
      /\ p \in Range(unchanged) <=>
           (p \in DOMAIN current /\ p \in DOMAIN incoming /\ current[p] = incoming[p])

\* C10 witness: a diff with two changed paths, one added and one removed.
C10_Witness ==
  /\ diff # None
  /\ Len(changed) = 2
  /\ Len(added) = 1
  /\ Len(removed) = 1

\* ---- properties of the error log -------------------------------------------

\* C8: whenever the lock is free, error_log holds at most 200 entries; they
\* are the last entries of the sequence of failures logged since the last
\* clear, in the order logged, which is the order in which the jobs failed.
C8_ErrorLogRolling ==
  lock = Free =>
    LET n == Len(error_log)
        m == Len(sinceClear)
    IN
    /\ n <= ErrorLogMax
    /\ n = IF m > ErrorLogMax THEN ErrorLogMax ELSE m
    /\ \A k \in 1..n :
         /\ error_log[k].id = sinceClear[m - n + k]
         /\ jobs[error_log[k].id].status = "error"
    /\ \A k \in 1..(n - 1) : error_log[k].id < error_log[k + 1].id

\* C8 witness: more than 200 failures have been logged since the last clear,
\* the oldest has been dropped, and the lock is free again.
C8_Witness ==
  /\ lock = Free
  /\ Len(sinceClear) > ErrorLogMax
  /\ Len(error_log) = ErrorLogMax
  /\ error_log[1].id = 2

\* ---- properties of the tool's ignore rules ---------------------------------

\* A path that the copy's ignore rules leave out: a file named in
\* IGNORED_FILES, or a file anywhere beneath a directory named in IGNORED_DIRS.
Ignored(p) == Name(p) \in IGNORED_FILES \/ DirParts(p) \cap IGNORED_DIRS # {}
Visible(tree) == Restrict(tree, {p \in TreePaths : ~Ignored(p)})
Built == rpc \in {"report", "done"}

\* C11: neither manifest built by run_reintegration lists a file named
\* .DS_Store or a file anywhere beneath a directory named .git, .venv,
\* node_modules or __pycache__.
C11_ManifestsIgnore ==
  Built => \A p \in DOMAIN current \cup DOMAIN incoming : ~Ignored(p)

\* The files of the source tree and of the local tree that are the true
\* differences: ignored files left aside.
TrueAdded == DOMAIN Visible(source_tree) \ DOMAIN Visible(local_tree)
TrueRemoved == DOMAIN Visible(local_tree) \ DOMAIN Visible(source_tree)
TrueChanged ==
  {p \in DOMAIN Visible(source_tree) \cap DOMAIN Visible(local_tree) :
     source_tree[p] # local_tree[p]}

\* C12: after a full copy of a source tree with exactly one file the local
\* tree lacks, one file missing that the local tree has and one file with
\* the same path and different content, the report's counts are added = 1,
\* removed = 1, changed = 1, whatever ignored files either tree also holds.
C12_CountsAreTrueDifferences ==
  ( /\ rpc = "done"
    /\ copy_mode = Some("full")
    /\ Cardinality(TrueAdded) = 1
    /\ Cardinality(TrueRemoved) = 1
    /\ Cardinality(TrueChanged) = 1 )
  => /\ report[1].added = 1
     /\ report[1].removed = 1
     /\ report[1].changed = 1

\* C20: for a source path that is neither a directory named AI_first nor a
\* directory with an immediate child directory AI_first, run_reintegration
\* stops at _find_ai_first_dir: no scratch directory, no scratch copy, no
\* manifest or diff, no summary, no report.
C20_NotFoundFailsFirst ==
  FindAiFirstDir(source_path) = "raise" =>
    /\ rpc \in {"find", "raised"}
    /\ scratch_root = FALSE
    /\ scratch_copy = None
    /\ current = <<>> /\ incoming = <<>> /\ diff = None
    /\ summary = None
    /\ report = None

\* C20 witness: FileNotFoundError was raised for a directory, not named
\* AI_first, in which AI_first is a file.
C20_Witness ==
  /\ rpc = "raised"
  /\ source_path.is_dir
  /\ source_path.name = "repo"
  /\ source_path.child = "file"

\* ---- properties of the small-document store --------------------------------

\* The issues in the file at the path of the issue list.
StoredIssues ==
  IF store["quick_issues"].state = "json"
    THEN Loads(store["quick_issues"].text).issues
    ELSE <<>>
Created ==
  /\ last.op = "POST"
  /\ last.doc = "quick_issues"
  /\ last.status = 200
  /\ Len(last.data.issues) = Len(last.before.issues) + 1
SameMonthBefore(issues, n) == {k \in 1..(n - 1) : issues[k].id.ym = issues[n].id.ym}

\* C13: a creation appends one issue whose id has the month of the request
\* and, as its suffix, one more than the largest suffix among the ids of that
\* month already in the list (1 if there is none), written in decimal with
\* zeros on the left up to three digits; and the ids of one month in the
\* stored list count 1, 2, 3, ... in list order, none missing or repeated.
C13_SequentialIds ==
  /\ Created =>
       LET olds == last.before.issues
           new == last.data.issues[Len(last.data.issues)]
           nums == {ToInt(olds[k].id.tail) :
                      k \in {j \in DOMAIN olds : olds[j].id.ym = Months[today]}}
           n == ToInt(new.id.tail)
       IN /\ StoredIssues = last.data.issues
          /\ SubSeq(last.data.issues, 1, Len(olds)) = olds
          /\ new.id.ym = Months[today]
          /\ IsDigit(new.id.tail)
          /\ Len(new.id.tail) >= 3
          /\ n < 1000 => Len(new.id.tail) = 3
          /\ \A m \in nums : m < n
          /\ n = 1 \/ n - 1 \in nums
  /\ \A k \in DOMAIN StoredIssues :
       ToInt(StoredIssues[k].id.tail) =
         Cardinality(SameMonthBefore(StoredIssues, k)) + 1

\* C13 witness: three issues created one after the other in one month, the
\* third being the twelfth of that month (suffix 012).
C13_Witness ==
  /\ Created
  /\ Len(StoredIssues) = 12
  /\ StoredIssues[12].id = IssueId(Months[1], <<0, 1, 2>>)
  /\ StoredIssues[10].id = IssueId(Months[1], <<0, 1, 0>>)

\* A GET has just answered, and the document it read was last written by a
\* POST: nothing else has touched the file in between.
ReadBack ==
  /\ last.op = "GET"
  /\ last.status = 200
  /\ written[last.doc] # None
Wrote == written[last.doc][1]

\* The fields of a document (of an issue, for the issue list) that a payload
\* sets by name.
DocFields(d) ==
  CASE d = "quick_issues" -> {"title", "status", "priority", "owner", "tags", "notes"}
    [] d = "simple_project" -> {"title", "summary", "entries"}
    [] d = "ui_style" -> {"active_template_id", "notes"}

\* The object of the response that holds those fields.
Returned ==
  IF last.doc = "quick_issues"
    THEN LET issues == last.data.issues
         IN issues[CHOOSE k \in DOMAIN issues : issues[k].id = Wrote.id]
    ELSE last.data
SameValue(f, sent, got) ==
  IF f = "entries" THEN IsList(sent) /\ got = EntriesOf(sent) ELSE got = sent

Plain(payload, f) ==
  LET v == payload[f]
  IN IF f \in {"tags", "entries"}
       THEN IsList(v) /\ Strip(Or(Get(payload, "entry"), "")) = ""
       ELSE /\ IsStr(v) /\ v # "" /\ Strip(v) = v
            /\ f = "status" => v \in {"open", "in_progress", "closed"}
            /\ f = "priority" => v \in {"high", "medium", "low"}

ReadRecoversAlone ==
  (last.op \in {"GET", "POST"} /\ last.found \in {"missing", "garbage"}) =>
    /\ last.before = Default(last.doc, Stamp)
    /\ last.op = "GET" => last.status = 200 /\ last.data = last.before
    /\ (last.op = "GET" \/ last.status \in {400, 404}) =>
         /\ store[last.doc].state = "json"
         /\ Loads(store[last.doc].text) = last.before

\* A GET has answered although the file did not parse.
ReadRecoversAlone_Witness ==
  /\ last.op = "GET"
  /\ last.found = "garbage"
  /\ last.doc = "simple_project"
  /\ last.data.title = "Untitled project"

Statuses == {"open", "in_progress", "closed"}
Priorities == {"high", "medium", "low"}
Updated ==
  /\ last.op = "POST"
  /\ last.doc = "quick_issues"
  /\ last.status = 200
  /\ Len(last.data.issues) = Len(last.before.issues)
Target ==
  last.data.issues[CHOOSE k \in DOMAIN last.data.issues :
                     last.data.issues[k].id = last.pid[1]]
Word(v) == Lower(Strip(Or(v, "")))

\* C17: every stored issue has a status among open, in_progress, closed and
\* a priority among high, medium, low; an issue created from a payload whose
\* status (priority) is missing or not one of these has status open
\* (priority medium), and so has an issue updated with such a value.
C17_Normalized ==
  /\ \A k \in DOMAIN StoredIssues :
       /\ StoredIssues[k].status \in Statuses
       /\ StoredIssues[k].priority \in Priorities
  /\ Created =>
       LET new == last.data.issues[Len(last.data.issues)]
       IN /\ Word(Get(last.payload, "status")) \notin Statuses => new.status = "open"
          /\ Word(Get(last.payload, "priority")) \notin Priorities =>
               new.priority = "medium"
  /\ Updated =>
       /\ ("status" \in DOMAIN last.payload
             /\ Word(last.payload["status"]) \notin Statuses) =>
            Target.status = "open"
       /\ ("priority" \in DOMAIN last.payload
             /\ Word(last.payload["priority"]) \notin Priorities) =>
            Target.priority = "medium"

\* C17 witness: an issue created with status "bogus" and priority "urgent"
\* is stored open and medium, next to an issue closed by an update.
C17_Witness ==
  /\ Created
  /\ last.payload = [action |-> "create", title |-> "Fix", status |-> "bogus",
                     priority |-> "urgent"]
  /\ Len(StoredIssues) = 2
  /\ StoredIssues[1].status = "closed"
  /\ StoredIssues[2].status = "open"
  /\ StoredIssues[2].priority = "medium"

\* ---- properties of the write path ------------------------------------------

\* C15: whatever the request threads have done and wherever the process was
\* killed, path names no file, or a file holding the complete text of the
\* previous document, of the default, or of some thread's payload.
C15_AtomicWrites ==
  disk.doc # 0 => Parses(disk.inodes[disk.doc])

\* C16: reading a document whose file is missing or does not parse does not
\* fail: no thread's _read_json ends at the FileNotFoundError of tmp.replace
\* while it writes the default.
C16_ReadNeverFails ==
  \A w \in DOMAIN io : ~(io[w].pc = "raised" /\ io[w].src = 0)

\* ---- properties of the lock -------------------------------------------------

\* The statements inside a `with self.lock:` block, by thread position: the
\* bodies of the blocks of start_job, the clear handler, status_payload and
\* get_job, and of _queue_worker and the error branch of _run_job.
HandlerSections == {"sj_cs", "clr_cs", "sp_cs", "gj_cs"}
WorkerSections == {"qw_cs", "el_append", "el_trim"}

\* The positions at which a thread waits for a subprocess or is inside a
\* file-system call.
HandlerIo == {"sj_path", "sp_read", "gj_tail"}
WorkerIo == {"rj_open", "rj_write", "rj_popen", "rj_wait"}

\* The number of threads of a bag at one of the positions pcs.
ThreadsAt(bag, pcs) ==
  BagCardinality([t \in {x \in BagToSet(bag) : x.pc \in pcs} |-> bag[t]])

\* The thread that holds the lock is inside a with block, and it is the only
\* thread inside one.
HolderInSection ==
  /\ ThreadsAt(handlers, HandlerSections) = (IF lock = HandlerTid THEN 1 ELSE 0)
  /\ ThreadsAt(workers, WorkerSections) = (IF lock = WorkerTid THEN 1 ELSE 0)

\* The step is one of the thread that holds the lock.
HolderActs ==
  \/ /\ lock = HandlerTid
     /\ \E r \in BagToSet(handlers) :
          r.pc \in HandlerSections /\ CopiesIn(r, handlers') < CopiesIn(r, handlers)
  \/ /\ lock = WorkerTid
     /\ \E w \in BagToSet(workers) :
          w.pc \in WorkerSections /\ CopiesIn(w, workers') < CopiesIn(w, workers)

\* The step is one of a thread that waits for a subprocess or is inside a
\* file-system call.
IoActs ==
  \/ \E r \in BagToSet(handlers) :
       r.pc \in HandlerIo /\ CopiesIn(r, handlers') < CopiesIn(r, handlers)
  \/ \E w \in BagToSet(workers) :
       w.pc \in WorkerIo /\ CopiesIn(w, workers') < CopiesIn(w, workers)

\* C18: the lock is held only for bookkeeping.  Whenever the lock is held,
\* its holder is at a statement inside a with block, none of which waits for
\* a subprocess or touches a file: a step of the holder leaves the log
\* files, the subprocesses and the documents as they are, and a step that
\* waits for a subprocess or does file I/O is not one of the holder.
C18_LockOnlyForBookkeeping ==
  [][/\ HolderInSection
     /\ HolderInSection'
     /\ HolderActs => UNCHANGED <<files, started, exits, store, project_md>>
     /\ IoActs => ~HolderActs]_vars

\* C18 witness: a request holds the lock inside status_payload, after it has
\* written the default documents, while the worker waits for a subprocess.
C18_Witness ==
  /\ lock = HandlerTid
  /\ \E r \in BagToSet(handlers) : r.pc = "sp_cs"
  /\ \E w \in BagToSet(workers) : w.pc = "rj_wait"
  /\ \A d \in Docs : store[d].state = "json"

\* A step writes one of self.jobs (a key is added), self.job_order,
\* self.queue, self.queue_running, self.error_log.
WritesShared ==
  \/ DOMAIN jobs' # DOMAIN jobs
  \/ job_order' # job_order
  \/ queue' # queue
  \/ queue_running' # queue_running
  \/ error_log' # error_log

\* C19: every write to jobs, job_order, queue, queue_running and error_log is
\* a step of the thread that holds the lock, and at most one thread is inside
\* a with block at any time.
C19_WritesUnderLock ==
  [][/\ WritesShared => HolderActs
     /\ ThreadsAt(handlers, HandlerSections)
          + ThreadsAt(workers, WorkerSections) <= 1
     /\ ThreadsAt(handlers', HandlerSections)
          + ThreadsAt(workers', WorkerSections) <= 1]_vars

\* C19 witness: the worker is appending to the error log, under the lock,
\* while a submitter waits for the lock to insert the second job.
C19_Witness ==
  /\ lock = WorkerTid
  /\ \E w \in BagToSet(workers) : w.pc = "el_trim"
  /\ \E r \in BagToSet(handlers) : r.pc = "sj_lock"
  /\ Len(error_log) = 1
  /\ Len(job_order) = 1

\* ---- properties of the job table --------------------------------------------

\* C21: jobs are never deleted.  job_order only grows at its end, the keys
\* of jobs are exactly the ids in job_order, and a get_job for an id that is
\* in job_order finds the job (the request goes on to read the log's tail
\* instead of answering 404).
C21_JobsNeverDeleted ==
  [][/\ IsPrefix(job_order, job_order')
     /\ DOMAIN jobs = Range(job_order)
     /\ DOMAIN jobs' = Range(job_order')
     /\ \A r \in BagToSet(handlers) :
          (/\ r.pc = "gj_cs"
           /\ r.resp > 0
           /\ r.job[1] \in Range(job_order)
           /\ CopiesIn(r, handlers') < CopiesIn(r, handlers))
          => [r EXCEPT !.pc = "gj_tail"] \in BagToSet(handlers')]_vars

\* C21 witness: the first of two jobs has ended, and a request for it, made
\* after the second was submitted, has found it.
C21_Witness ==
  /\ Len(job_order) = 2
  /\ Terminal(1)
  /\ \E r \in InFlight("gj_tail") : r.job = Some(1)

\* ---- properties of the drain loop -------------------------------------------

\* C22: every job in the job table eventually has status 'done' or 'error'.
C22_EveryJobEnds ==
  \A id \in 1..MaxJobs : (id \in DOMAIN jobs) ~> (id \in DOMAIN jobs /\ Terminal(id))

\* No element occurs twice in s.
NoDup(s) == \A i, j \in 1..Len(s) : s[i] = s[j] => i = j

\* C23: no job is run twice.  An id enters the queue only as the id of a job
\* created in the same step, with status 'queued', and a submission leaves
\* the jobs already there as they are; an id is in the queue at most once
\* and never again after it was popped; no id is passed to _run_job twice.
C23_NoJobRunTwice ==
  [][/\ NoDup(queue')
     /\ NoDup(runOrder')
     /\ Range(queue') \cap Range(runOrder') = {}
     /\ \A id \in Range(queue') \ Range(queue) :
          id \notin DOMAIN jobs /\ jobs'[id].status = "queued"
     /\ \A id \in DOMAIN jobs' \ DOMAIN jobs :
          /\ id \in Range(queue') \ Range(queue)
          /\ \A old \in DOMAIN jobs : jobs'[old] = jobs[old]]_vars

\* C23 witness: the same action was submitted twice, the first job has ended
\* and the second, a job of its own, has been passed to _run_job.
C23_Witness ==
  /\ runOrder = <<1, 2>>
  /\ jobs[1].action = jobs[2].action
  /\ Terminal(1)

\* ---- properties of the error log's content ----------------------------------

\* The jobs that have ended 'error', in the order in which they failed: the
\* one worker runs the jobs one after the other, in the order of runOrder.
FailedOrder == SelectSeq(runOrder, LAMBDA id : jobs[id].status = "error")

\* The failed jobs whose worker has not yet entered the with block that
\* follows `if job.status == "error":`, or is at its first statement.
PendingAppend ==
  {JobOf(w) : w \in {x \in BagToSet(workers) : x.pc \in {"el_lock", "el_append"}}}
FailedLogged == SelectSeq(FailedOrder, LAMBDA id : id \notin PendingAppend)

\* s is a final segment of t.
IsSuffix(s, t) ==
  Len(s) <= Len(t) /\ s = SubSeq(t, Len(t) - Len(s) + 1, Len(t))

\* The error log holds, in the order they failed, the failed jobs appended
\* since the last clear, each once and with its id, action, status,
\* returncode and timestamps; it holds nothing else.
LogIsFailures ==
  /\ IsSuffix(sinceClear, FailedLogged)
  /\ Len(error_log) = Len(sinceClear)
  /\ \A k \in 1..Len(error_log) : error_log[k] = ErrorEntry(jobs[sinceClear[k]])

\* The step is error_log.clear() of the clear handler.
ClearActs ==
  \E r \in BagToSet(handlers) :
    r.pc = "clr_cs" /\ CopiesIn(r, handlers') < CopiesIn(r, handlers)

\* C24: every job that ends 'error' is appended to the error log once, with
\* its fields, and no job that ends 'done' is appended: the log is always a
\* final segment of the failed jobs in the order they failed, and as long as
\* no clear is made it is the whole of it.
C24_ErrorLogListsFailures ==
  [][/\ LogIsFailures
     /\ LogIsFailures'
     /\ (sinceClear = FailedLogged /\ ~ClearActs) => sinceClear' = FailedLogged']_vars

\* C24 witness: of two jobs the first ended 'done' and the second 'error';
\* the log holds the second and nothing else.
C24_Witness ==
  /\ runOrder = <<1, 2>>
  /\ jobs[1].status = "done"
  /\ jobs[2].status = "error"
  /\ error_log = <<ErrorEntry(jobs[2])>>
  /\ workers = EmptyBag

\* C25: no queued job is stranded.  Whenever the lock is free, a non-empty
\* queue has its flag set and a worker thread that is alive or about to be
\* started by the submitter that set the flag; a cleared flag has an empty
\* queue.
C25_NoStrandedJob ==
  lock = Free =>
    /\ queue # <<>> =>
         queue_running /\ BagCardinality(workers) + NumPendingStarts >= 1
    /\ ~queue_running => queue = <<>>

\* ---- properties of concurrent issue creation --------------------------------

\* The create requests answered 200, and the id each response carries for
\* the issue it created (the last of the list it sent).
Succeeded == {w \in DOMAIN io : io[w].pc = "done" /\ io[w].status = 200}
HandedOut(w) == LET issues == io[w].data[1].issues IN issues[Len(issues)].id

\* C26: once every create request has been answered, the stored list holds
\* one issue per request answered 200, and no two of these requests were
\* given the same id.
C26_NoLostCreate ==
  (\A w \in DOMAIN io : io[w].pc = "done") =>
    /\ Len(StoredIssues) = Cardinality(Succeeded)
    /\ \A v, w \in Succeeded : HandedOut(v) = HandedOut(w) => v = w

\* ---- properties of a job's fields -------------------------------------------

\* A request thread is inside the with block of status_payload or get_job,
\* where it reads the jobs.
ReaderInside == \E r \in BagToSet(handlers) : r.pc \in {"sp_cs", "gj_cs"}

\* What the status of a job says about its other fields.
FieldsConsistent(job) ==
  /\ job.status = "queued" =>
       job.started_at = None /\ job.ended_at = None /\ job.returncode = None
  /\ job.status = "running" => job.started_at # None
  /\ job.status = "done" => job.returncode = Some(0) /\ job.ended_at # None
  /\ job.status = "error" =>
       job.returncode # None /\ job.returncode # Some(0) /\ job.ended_at # None

\* C27: whenever a reader is inside status_payload's or get_job's with
\* block, every job's fields are consistent with its status.
C27_FieldsConsistent ==
  ReaderInside => \A id \in DOMAIN jobs : FieldsConsistent(jobs[id])

\* ---- properties of the close request ----------------------------------------

\* The last request was a POST /api/quick-issues whose action is close,
\* answered 200.
Closed == Updated /\ Word(Get(last.payload, "action")) = "close"

\* C28: after a close request answered 200 the issue it names is stored
\* with status 'closed', and every other issue is stored as it was.
C28_CloseCloses ==
  Closed =>
    /\ StoredIssues = last.data.issues
    /\ Target.status = "closed"
    /\ \A k \in DOMAIN StoredIssues :
         StoredIssues[k].id # last.pid[1] => StoredIssues[k] = last.before.issues[k]

====
